---- MODULE Spec2Model ----
(***************************************************************************)
(* Verification model of the R2R repository-parsing subsystem:             *)
(*   - HomeAssistantParser   (py/core/parsers/repositories/ha_parser.py)   *)
(*   - GenericCodeParser     (py/core/parsers/repositories/generic_parser.py) *)
(*   - VectorStoragePipe     (py/core/pipes/ingestion/vector_storage_pipe.py) *)
(*                                                                         *)
(* A Python str is modelled as the sequence of its code points (0 to       *)
(* 1114111), so that the regular expressions, str.strip, str.split,        *)
(* str.splitlines, str.lower, repr, Path.suffix and ast.parse are computed *)
(* character by character as the code does, for every character a str can *)
(* hold.  The character properties are those of the Unicode database of    *)
(* CPython 3.11 (Unicode 14.0.0), held below as tables of ranges.          *)
(***************************************************************************)
EXTENDS Integers, Sequences, FiniteSets, TLC

(***************************************************************************)
(* String constants: S("abc") is the str 'abc'.                            *)
(***************************************************************************)
\* The characters a string constant is written with, and ord of the k-th
Typed ==
  "\t\n\f\r !\"#$%&'()*+,-./0123456789:;<=>?@ABCDEFGHIJKLMNOPQRSTUVWXYZ[\\]^_abcdefghijklmnopqrstuvwxyz{|}~"
TypedOrd(k) ==
  IF k <= 4 THEN << 9, 10, 12, 13 >>[k] ELSE IF k <= 68 THEN k + 27 ELSE k + 28

\* ord(c), for c a one-character string constant
OrdTable ==
  [c \in {SubSeq(Typed, k, k) : k \in 1..Len(Typed)} |->
     TypedOrd(CHOOSE k \in 1..Len(Typed) : SubSeq(Typed, k, k) = c)]

\* The str a string constant denotes, and the set of its characters
Ord(c) == OrdTable[c]
S(str) == [i \in 1..Len(str) |-> OrdTable[SubSeq(str, i, i)]]
Of(str) == {OrdTable[SubSeq(str, i, i)] : i \in 1..Len(str)}

\* The value None: a sequence no str equals (no code point is negative).
None == << -1 >>

(***************************************************************************)
(* The Unicode database: each table is written as decimal numbers of seven *)
(* digits, one space apart, n to a row; it is sorted, and a row            *)
(* <<lo, hi, ...>> speaks of the code points lo to hi.                     *)
(***************************************************************************)
\* The k-th number of a table text
Field(text, k) ==
  LET d(j) == CHOOSE v \in 0..9 :
                 SubSeq("0123456789", v + 1, v + 1)
                   = SubSeq(text, 8 * k - 8 + j, 8 * k - 8 + j)
  IN 1000000 * d(1) + 100000 * d(2) + 10000 * d(3) + 1000 * d(4)
       + 100 * d(5) + 10 * d(6) + d(7)

Rows(text, n) ==
  [k \in 1..((Len(text) + 1) \div (8 * n)) |->
     [j \in 1..n |-> Field(text, n * (k - 1) + j)]]

\* The row of tbl that holds c, between the rows lo and hi; << >> if none
RECURSIVE FindRun(_, _, _, _)
FindRun(tbl, c, lo, hi) ==
  IF lo > hi THEN << >>
  ELSE LET mid == (lo + hi) \div 2
           run == tbl[mid]
       IN IF c < run[1] THEN FindRun(tbl, c, lo, mid - 1)
          ELSE IF c > run[2] THEN FindRun(tbl, c, mid + 1, hi)
          ELSE run

RunOf(tbl, c) == FindRun(tbl, c, 1, Len(tbl))
InRanges(tbl, c) == RunOf(tbl, c) # << >>

\* The characters str.isspace() holds of, which \s matches and str.strip()
\* and str.split() take for whitespace
SpaceChars ==
  {9, 10, 11, 12, 13, 28, 29, 30, 31, 32, 133, 160, 5760, 8192, 8193, 8194,
   8195, 8196, 8197, 8198, 8199, 8200, 8201, 8202, 8232, 8233, 8239, 8287,
   12288}

\* The characters at which str.splitlines() ends a line
LineEnds ==
  {10, 11, 12, 13, 28, 29, 30, 133, 8232, 8233}

\* The characters \w matches in a str pattern: the alphanumeric characters
\* and the underscore
WordRanges ==
  Rows("0000048 0000057 0000065 0000090 0000095 0000095 0000097 0000122 0000170 0000170 0000178 0000179 0000181 0000181 0000185 0000186 0000188 0000190 0000192 0000214 0000216 0000246 0000248 0000705 0000710 0000721 0000736 0000740 0000748 0000748 0000750 0000750 0000880 0000884 0000886 0000887 0000890 0000893 0000895 0000895 0000902 0000902 0000904 0000906 0000908 0000908 0000910 0000929 0000931 0001013 0001015 0001153 0001162 0001327 0001329 0001366 0001369 0001369 0001376 0001416 0001488 0001514 0001519 0001522 0001568 0001610 0001632 0001641 0001646 0001647 0001649 0001747 0001749 0001749 0001765 0001766 0001774 0001788 0001791 0001791 0001808 0001808 0001810 0001839 0001869 0001957 0001969 0001969 0001984 0002026 0002036 0002037 0002042 0002042 0002048 0002069 0002074 0002074 0002084 0002084 0002088 0002088 0002112 0002136 0002144 0002154 0002160 0002183 0002185 0002190 0002208 0002249 0002308 0002361 0002365 0002365 0002384 0002384 0002392 0002401 "
       \o "0002406 0002415 0002417 0002432 0002437 0002444 0002447 0002448 0002451 0002472 0002474 0002480 0002482 0002482 0002486 0002489 0002493 0002493 0002510 0002510 0002524 0002525 0002527 0002529 0002534 0002545 0002548 0002553 0002556 0002556 0002565 0002570 0002575 0002576 0002579 0002600 0002602 0002608 0002610 0002611 0002613 0002614 0002616 0002617 0002649 0002652 0002654 0002654 0002662 0002671 0002674 0002676 0002693 0002701 0002703 0002705 0002707 0002728 0002730 0002736 0002738 0002739 0002741 0002745 0002749 0002749 0002768 0002768 0002784 0002785 0002790 0002799 0002809 0002809 0002821 0002828 0002831 0002832 0002835 0002856 0002858 0002864 0002866 0002867 0002869 0002873 0002877 0002877 0002908 0002909 0002911 0002913 0002918 0002927 0002929 0002935 0002947 0002947 0002949 0002954 0002958 0002960 0002962 0002965 0002969 0002970 0002972 0002972 0002974 0002975 0002979 0002980 0002984 0002986 0002990 0003001 0003024 0003024 0003046 0003058 "
       \o "0003077 0003084 0003086 0003088 0003090 0003112 0003114 0003129 0003133 0003133 0003160 0003162 0003165 0003165 0003168 0003169 0003174 0003183 0003192 0003198 0003200 0003200 0003205 0003212 0003214 0003216 0003218 0003240 0003242 0003251 0003253 0003257 0003261 0003261 0003293 0003294 0003296 0003297 0003302 0003311 0003313 0003314 0003332 0003340 0003342 0003344 0003346 0003386 0003389 0003389 0003406 0003406 0003412 0003414 0003416 0003425 0003430 0003448 0003450 0003455 0003461 0003478 0003482 0003505 0003507 0003515 0003517 0003517 0003520 0003526 0003558 0003567 0003585 0003632 0003634 0003635 0003648 0003654 0003664 0003673 0003713 0003714 0003716 0003716 0003718 0003722 0003724 0003747 0003749 0003749 0003751 0003760 0003762 0003763 0003773 0003773 0003776 0003780 0003782 0003782 0003792 0003801 0003804 0003807 0003840 0003840 0003872 0003891 0003904 0003911 0003913 0003948 0003976 0003980 0004096 0004138 0004159 0004169 0004176 0004181 "
       \o "0004186 0004189 0004193 0004193 0004197 0004198 0004206 0004208 0004213 0004225 0004238 0004238 0004240 0004249 0004256 0004293 0004295 0004295 0004301 0004301 0004304 0004346 0004348 0004680 0004682 0004685 0004688 0004694 0004696 0004696 0004698 0004701 0004704 0004744 0004746 0004749 0004752 0004784 0004786 0004789 0004792 0004798 0004800 0004800 0004802 0004805 0004808 0004822 0004824 0004880 0004882 0004885 0004888 0004954 0004969 0004988 0004992 0005007 0005024 0005109 0005112 0005117 0005121 0005740 0005743 0005759 0005761 0005786 0005792 0005866 0005870 0005880 0005888 0005905 0005919 0005937 0005952 0005969 0005984 0005996 0005998 0006000 0006016 0006067 0006103 0006103 0006108 0006108 0006112 0006121 0006128 0006137 0006160 0006169 0006176 0006264 0006272 0006276 0006279 0006312 0006314 0006314 0006320 0006389 0006400 0006430 0006470 0006509 0006512 0006516 0006528 0006571 0006576 0006601 0006608 0006618 0006656 0006678 0006688 0006740 "
       \o "0006784 0006793 0006800 0006809 0006823 0006823 0006917 0006963 0006981 0006988 0006992 0007001 0007043 0007072 0007086 0007141 0007168 0007203 0007232 0007241 0007245 0007293 0007296 0007304 0007312 0007354 0007357 0007359 0007401 0007404 0007406 0007411 0007413 0007414 0007418 0007418 0007424 0007615 0007680 0007957 0007960 0007965 0007968 0008005 0008008 0008013 0008016 0008023 0008025 0008025 0008027 0008027 0008029 0008029 0008031 0008061 0008064 0008116 0008118 0008124 0008126 0008126 0008130 0008132 0008134 0008140 0008144 0008147 0008150 0008155 0008160 0008172 0008178 0008180 0008182 0008188 0008304 0008305 0008308 0008313 0008319 0008329 0008336 0008348 0008450 0008450 0008455 0008455 0008458 0008467 0008469 0008469 0008473 0008477 0008484 0008484 0008486 0008486 0008488 0008488 0008490 0008493 0008495 0008505 0008508 0008511 0008517 0008521 0008526 0008526 0008528 0008585 0009312 0009371 0009450 0009471 0010102 0010131 0011264 0011492 "
       \o "0011499 0011502 0011506 0011507 0011517 0011517 0011520 0011557 0011559 0011559 0011565 0011565 0011568 0011623 0011631 0011631 0011648 0011670 0011680 0011686 0011688 0011694 0011696 0011702 0011704 0011710 0011712 0011718 0011720 0011726 0011728 0011734 0011736 0011742 0011823 0011823 0012293 0012295 0012321 0012329 0012337 0012341 0012344 0012348 0012353 0012438 0012445 0012447 0012449 0012538 0012540 0012543 0012549 0012591 0012593 0012686 0012690 0012693 0012704 0012735 0012784 0012799 0012832 0012841 0012872 0012879 0012881 0012895 0012928 0012937 0012977 0012991 0013312 0019903 0019968 0042124 0042192 0042237 0042240 0042508 0042512 0042539 0042560 0042606 0042623 0042653 0042656 0042735 0042775 0042783 0042786 0042888 0042891 0042954 0042960 0042961 0042963 0042963 0042965 0042969 0042994 0043009 0043011 0043013 0043015 0043018 0043020 0043042 0043056 0043061 0043072 0043123 0043138 0043187 0043216 0043225 0043250 0043255 0043259 0043259 "
       \o "0043261 0043262 0043264 0043301 0043312 0043334 0043360 0043388 0043396 0043442 0043471 0043481 0043488 0043492 0043494 0043518 0043520 0043560 0043584 0043586 0043588 0043595 0043600 0043609 0043616 0043638 0043642 0043642 0043646 0043695 0043697 0043697 0043701 0043702 0043705 0043709 0043712 0043712 0043714 0043714 0043739 0043741 0043744 0043754 0043762 0043764 0043777 0043782 0043785 0043790 0043793 0043798 0043808 0043814 0043816 0043822 0043824 0043866 0043868 0043881 0043888 0044002 0044016 0044025 0044032 0055203 0055216 0055238 0055243 0055291 0063744 0064109 0064112 0064217 0064256 0064262 0064275 0064279 0064285 0064285 0064287 0064296 0064298 0064310 0064312 0064316 0064318 0064318 0064320 0064321 0064323 0064324 0064326 0064433 0064467 0064829 0064848 0064911 0064914 0064967 0065008 0065019 0065136 0065140 0065142 0065276 0065296 0065305 0065313 0065338 0065345 0065370 0065382 0065470 0065474 0065479 0065482 0065487 0065490 0065495 "
       \o "0065498 0065500 0065536 0065547 0065549 0065574 0065576 0065594 0065596 0065597 0065599 0065613 0065616 0065629 0065664 0065786 0065799 0065843 0065856 0065912 0065930 0065931 0066176 0066204 0066208 0066256 0066273 0066299 0066304 0066339 0066349 0066378 0066384 0066421 0066432 0066461 0066464 0066499 0066504 0066511 0066513 0066517 0066560 0066717 0066720 0066729 0066736 0066771 0066776 0066811 0066816 0066855 0066864 0066915 0066928 0066938 0066940 0066954 0066956 0066962 0066964 0066965 0066967 0066977 0066979 0066993 0066995 0067001 0067003 0067004 0067072 0067382 0067392 0067413 0067424 0067431 0067456 0067461 0067463 0067504 0067506 0067514 0067584 0067589 0067592 0067592 0067594 0067637 0067639 0067640 0067644 0067644 0067647 0067669 0067672 0067702 0067705 0067742 0067751 0067759 0067808 0067826 0067828 0067829 0067835 0067867 0067872 0067897 0067968 0068023 0068028 0068047 0068050 0068096 0068112 0068115 0068117 0068119 0068121 0068149 "
       \o "0068160 0068168 0068192 0068222 0068224 0068255 0068288 0068295 0068297 0068324 0068331 0068335 0068352 0068405 0068416 0068437 0068440 0068466 0068472 0068497 0068521 0068527 0068608 0068680 0068736 0068786 0068800 0068850 0068858 0068899 0068912 0068921 0069216 0069246 0069248 0069289 0069296 0069297 0069376 0069415 0069424 0069445 0069457 0069460 0069488 0069505 0069552 0069579 0069600 0069622 0069635 0069687 0069714 0069743 0069745 0069746 0069749 0069749 0069763 0069807 0069840 0069864 0069872 0069881 0069891 0069926 0069942 0069951 0069956 0069956 0069959 0069959 0069968 0070002 0070006 0070006 0070019 0070066 0070081 0070084 0070096 0070106 0070108 0070108 0070113 0070132 0070144 0070161 0070163 0070187 0070272 0070278 0070280 0070280 0070282 0070285 0070287 0070301 0070303 0070312 0070320 0070366 0070384 0070393 0070405 0070412 0070415 0070416 0070419 0070440 0070442 0070448 0070450 0070451 0070453 0070457 0070461 0070461 0070480 0070480 "
       \o "0070493 0070497 0070656 0070708 0070727 0070730 0070736 0070745 0070751 0070753 0070784 0070831 0070852 0070853 0070855 0070855 0070864 0070873 0071040 0071086 0071128 0071131 0071168 0071215 0071236 0071236 0071248 0071257 0071296 0071338 0071352 0071352 0071360 0071369 0071424 0071450 0071472 0071483 0071488 0071494 0071680 0071723 0071840 0071922 0071935 0071942 0071945 0071945 0071948 0071955 0071957 0071958 0071960 0071983 0071999 0071999 0072001 0072001 0072016 0072025 0072096 0072103 0072106 0072144 0072161 0072161 0072163 0072163 0072192 0072192 0072203 0072242 0072250 0072250 0072272 0072272 0072284 0072329 0072349 0072349 0072368 0072440 0072704 0072712 0072714 0072750 0072768 0072768 0072784 0072812 0072818 0072847 0072960 0072966 0072968 0072969 0072971 0073008 0073030 0073030 0073040 0073049 0073056 0073061 0073063 0073064 0073066 0073097 0073112 0073112 0073120 0073129 0073440 0073458 0073648 0073648 0073664 0073684 0073728 0074649 "
       \o "0074752 0074862 0074880 0075075 0077712 0077808 0077824 0078894 0082944 0083526 0092160 0092728 0092736 0092766 0092768 0092777 0092784 0092862 0092864 0092873 0092880 0092909 0092928 0092975 0092992 0092995 0093008 0093017 0093019 0093025 0093027 0093047 0093053 0093071 0093760 0093846 0093952 0094026 0094032 0094032 0094099 0094111 0094176 0094177 0094179 0094179 0094208 0100343 0100352 0101589 0101632 0101640 0110576 0110579 0110581 0110587 0110589 0110590 0110592 0110882 0110928 0110930 0110948 0110951 0110960 0111355 0113664 0113770 0113776 0113788 0113792 0113800 0113808 0113817 0119520 0119539 0119648 0119672 0119808 0119892 0119894 0119964 0119966 0119967 0119970 0119970 0119973 0119974 0119977 0119980 0119982 0119993 0119995 0119995 0119997 0120003 0120005 0120069 0120071 0120074 0120077 0120084 0120086 0120092 0120094 0120121 0120123 0120126 0120128 0120132 0120134 0120134 0120138 0120144 0120146 0120485 0120488 0120512 0120514 0120538 "
       \o "0120540 0120570 0120572 0120596 0120598 0120628 0120630 0120654 0120656 0120686 0120688 0120712 0120714 0120744 0120746 0120770 0120772 0120779 0120782 0120831 0122624 0122654 0123136 0123180 0123191 0123197 0123200 0123209 0123214 0123214 0123536 0123565 0123584 0123627 0123632 0123641 0124896 0124902 0124904 0124907 0124909 0124910 0124912 0124926 0124928 0125124 0125127 0125135 0125184 0125251 0125259 0125259 0125264 0125273 0126065 0126123 0126125 0126127 0126129 0126132 0126209 0126253 0126255 0126269 0126464 0126467 0126469 0126495 0126497 0126498 0126500 0126500 0126503 0126503 0126505 0126514 0126516 0126519 0126521 0126521 0126523 0126523 0126530 0126530 0126535 0126535 0126537 0126537 0126539 0126539 0126541 0126543 0126545 0126546 0126548 0126548 0126551 0126551 0126553 0126553 0126555 0126555 0126557 0126557 0126559 0126559 0126561 0126562 0126564 0126564 0126567 0126570 0126572 0126578 0126580 0126583 0126585 0126588 0126590 0126590 "
       \o "0126592 0126601 0126603 0126619 0126625 0126627 0126629 0126633 0126635 0126651 0127232 0127244 0130032 0130041 0131072 0173791 0173824 0177976 0177984 0178205 0178208 0183969 0183984 0191456 0194560 0195101 0196608 0201546",
       2)

\* The characters a Python identifier may start with (str.isidentifier)
XidStartRanges ==
  Rows("0000065 0000090 0000095 0000095 0000097 0000122 0000170 0000170 0000181 0000181 0000186 0000186 0000192 0000214 0000216 0000246 0000248 0000705 0000710 0000721 0000736 0000740 0000748 0000748 0000750 0000750 0000880 0000884 0000886 0000887 0000891 0000893 0000895 0000895 0000902 0000902 0000904 0000906 0000908 0000908 0000910 0000929 0000931 0001013 0001015 0001153 0001162 0001327 0001329 0001366 0001369 0001369 0001376 0001416 0001488 0001514 0001519 0001522 0001568 0001610 0001646 0001647 0001649 0001747 0001749 0001749 0001765 0001766 0001774 0001775 0001786 0001788 0001791 0001791 0001808 0001808 0001810 0001839 0001869 0001957 0001969 0001969 0001994 0002026 0002036 0002037 0002042 0002042 0002048 0002069 0002074 0002074 0002084 0002084 0002088 0002088 0002112 0002136 0002144 0002154 0002160 0002183 0002185 0002190 0002208 0002249 0002308 0002361 0002365 0002365 0002384 0002384 0002392 0002401 0002417 0002432 0002437 0002444 0002447 0002448 "
       \o "0002451 0002472 0002474 0002480 0002482 0002482 0002486 0002489 0002493 0002493 0002510 0002510 0002524 0002525 0002527 0002529 0002544 0002545 0002556 0002556 0002565 0002570 0002575 0002576 0002579 0002600 0002602 0002608 0002610 0002611 0002613 0002614 0002616 0002617 0002649 0002652 0002654 0002654 0002674 0002676 0002693 0002701 0002703 0002705 0002707 0002728 0002730 0002736 0002738 0002739 0002741 0002745 0002749 0002749 0002768 0002768 0002784 0002785 0002809 0002809 0002821 0002828 0002831 0002832 0002835 0002856 0002858 0002864 0002866 0002867 0002869 0002873 0002877 0002877 0002908 0002909 0002911 0002913 0002929 0002929 0002947 0002947 0002949 0002954 0002958 0002960 0002962 0002965 0002969 0002970 0002972 0002972 0002974 0002975 0002979 0002980 0002984 0002986 0002990 0003001 0003024 0003024 0003077 0003084 0003086 0003088 0003090 0003112 0003114 0003129 0003133 0003133 0003160 0003162 0003165 0003165 0003168 0003169 0003200 0003200 "
       \o "0003205 0003212 0003214 0003216 0003218 0003240 0003242 0003251 0003253 0003257 0003261 0003261 0003293 0003294 0003296 0003297 0003313 0003314 0003332 0003340 0003342 0003344 0003346 0003386 0003389 0003389 0003406 0003406 0003412 0003414 0003423 0003425 0003450 0003455 0003461 0003478 0003482 0003505 0003507 0003515 0003517 0003517 0003520 0003526 0003585 0003632 0003634 0003634 0003648 0003654 0003713 0003714 0003716 0003716 0003718 0003722 0003724 0003747 0003749 0003749 0003751 0003760 0003762 0003762 0003773 0003773 0003776 0003780 0003782 0003782 0003804 0003807 0003840 0003840 0003904 0003911 0003913 0003948 0003976 0003980 0004096 0004138 0004159 0004159 0004176 0004181 0004186 0004189 0004193 0004193 0004197 0004198 0004206 0004208 0004213 0004225 0004238 0004238 0004256 0004293 0004295 0004295 0004301 0004301 0004304 0004346 0004348 0004680 0004682 0004685 0004688 0004694 0004696 0004696 0004698 0004701 0004704 0004744 0004746 0004749 "
       \o "0004752 0004784 0004786 0004789 0004792 0004798 0004800 0004800 0004802 0004805 0004808 0004822 0004824 0004880 0004882 0004885 0004888 0004954 0004992 0005007 0005024 0005109 0005112 0005117 0005121 0005740 0005743 0005759 0005761 0005786 0005792 0005866 0005870 0005880 0005888 0005905 0005919 0005937 0005952 0005969 0005984 0005996 0005998 0006000 0006016 0006067 0006103 0006103 0006108 0006108 0006176 0006264 0006272 0006312 0006314 0006314 0006320 0006389 0006400 0006430 0006480 0006509 0006512 0006516 0006528 0006571 0006576 0006601 0006656 0006678 0006688 0006740 0006823 0006823 0006917 0006963 0006981 0006988 0007043 0007072 0007086 0007087 0007098 0007141 0007168 0007203 0007245 0007247 0007258 0007293 0007296 0007304 0007312 0007354 0007357 0007359 0007401 0007404 0007406 0007411 0007413 0007414 0007418 0007418 0007424 0007615 0007680 0007957 0007960 0007965 0007968 0008005 0008008 0008013 0008016 0008023 0008025 0008025 0008027 0008027 "
       \o "0008029 0008029 0008031 0008061 0008064 0008116 0008118 0008124 0008126 0008126 0008130 0008132 0008134 0008140 0008144 0008147 0008150 0008155 0008160 0008172 0008178 0008180 0008182 0008188 0008305 0008305 0008319 0008319 0008336 0008348 0008450 0008450 0008455 0008455 0008458 0008467 0008469 0008469 0008472 0008477 0008484 0008484 0008486 0008486 0008488 0008488 0008490 0008505 0008508 0008511 0008517 0008521 0008526 0008526 0008544 0008584 0011264 0011492 0011499 0011502 0011506 0011507 0011520 0011557 0011559 0011559 0011565 0011565 0011568 0011623 0011631 0011631 0011648 0011670 0011680 0011686 0011688 0011694 0011696 0011702 0011704 0011710 0011712 0011718 0011720 0011726 0011728 0011734 0011736 0011742 0012293 0012295 0012321 0012329 0012337 0012341 0012344 0012348 0012353 0012438 0012445 0012447 0012449 0012538 0012540 0012543 0012549 0012591 0012593 0012686 0012704 0012735 0012784 0012799 0013312 0019903 0019968 0042124 0042192 0042237 "
       \o "0042240 0042508 0042512 0042527 0042538 0042539 0042560 0042606 0042623 0042653 0042656 0042735 0042775 0042783 0042786 0042888 0042891 0042954 0042960 0042961 0042963 0042963 0042965 0042969 0042994 0043009 0043011 0043013 0043015 0043018 0043020 0043042 0043072 0043123 0043138 0043187 0043250 0043255 0043259 0043259 0043261 0043262 0043274 0043301 0043312 0043334 0043360 0043388 0043396 0043442 0043471 0043471 0043488 0043492 0043494 0043503 0043514 0043518 0043520 0043560 0043584 0043586 0043588 0043595 0043616 0043638 0043642 0043642 0043646 0043695 0043697 0043697 0043701 0043702 0043705 0043709 0043712 0043712 0043714 0043714 0043739 0043741 0043744 0043754 0043762 0043764 0043777 0043782 0043785 0043790 0043793 0043798 0043808 0043814 0043816 0043822 0043824 0043866 0043868 0043881 0043888 0044002 0044032 0055203 0055216 0055238 0055243 0055291 0063744 0064109 0064112 0064217 0064256 0064262 0064275 0064279 0064285 0064285 0064287 0064296 "
       \o "0064298 0064310 0064312 0064316 0064318 0064318 0064320 0064321 0064323 0064324 0064326 0064433 0064467 0064605 0064612 0064829 0064848 0064911 0064914 0064967 0065008 0065017 0065137 0065137 0065139 0065139 0065143 0065143 0065145 0065145 0065147 0065147 0065149 0065149 0065151 0065276 0065313 0065338 0065345 0065370 0065382 0065437 0065440 0065470 0065474 0065479 0065482 0065487 0065490 0065495 0065498 0065500 0065536 0065547 0065549 0065574 0065576 0065594 0065596 0065597 0065599 0065613 0065616 0065629 0065664 0065786 0065856 0065908 0066176 0066204 0066208 0066256 0066304 0066335 0066349 0066378 0066384 0066421 0066432 0066461 0066464 0066499 0066504 0066511 0066513 0066517 0066560 0066717 0066736 0066771 0066776 0066811 0066816 0066855 0066864 0066915 0066928 0066938 0066940 0066954 0066956 0066962 0066964 0066965 0066967 0066977 0066979 0066993 0066995 0067001 0067003 0067004 0067072 0067382 0067392 0067413 0067424 0067431 0067456 0067461 "
       \o "0067463 0067504 0067506 0067514 0067584 0067589 0067592 0067592 0067594 0067637 0067639 0067640 0067644 0067644 0067647 0067669 0067680 0067702 0067712 0067742 0067808 0067826 0067828 0067829 0067840 0067861 0067872 0067897 0067968 0068023 0068030 0068031 0068096 0068096 0068112 0068115 0068117 0068119 0068121 0068149 0068192 0068220 0068224 0068252 0068288 0068295 0068297 0068324 0068352 0068405 0068416 0068437 0068448 0068466 0068480 0068497 0068608 0068680 0068736 0068786 0068800 0068850 0068864 0068899 0069248 0069289 0069296 0069297 0069376 0069404 0069415 0069415 0069424 0069445 0069488 0069505 0069552 0069572 0069600 0069622 0069635 0069687 0069745 0069746 0069749 0069749 0069763 0069807 0069840 0069864 0069891 0069926 0069956 0069956 0069959 0069959 0069968 0070002 0070006 0070006 0070019 0070066 0070081 0070084 0070106 0070106 0070108 0070108 0070144 0070161 0070163 0070187 0070272 0070278 0070280 0070280 0070282 0070285 0070287 0070301 "
       \o "0070303 0070312 0070320 0070366 0070405 0070412 0070415 0070416 0070419 0070440 0070442 0070448 0070450 0070451 0070453 0070457 0070461 0070461 0070480 0070480 0070493 0070497 0070656 0070708 0070727 0070730 0070751 0070753 0070784 0070831 0070852 0070853 0070855 0070855 0071040 0071086 0071128 0071131 0071168 0071215 0071236 0071236 0071296 0071338 0071352 0071352 0071424 0071450 0071488 0071494 0071680 0071723 0071840 0071903 0071935 0071942 0071945 0071945 0071948 0071955 0071957 0071958 0071960 0071983 0071999 0071999 0072001 0072001 0072096 0072103 0072106 0072144 0072161 0072161 0072163 0072163 0072192 0072192 0072203 0072242 0072250 0072250 0072272 0072272 0072284 0072329 0072349 0072349 0072368 0072440 0072704 0072712 0072714 0072750 0072768 0072768 0072818 0072847 0072960 0072966 0072968 0072969 0072971 0073008 0073030 0073030 0073056 0073061 0073063 0073064 0073066 0073097 0073112 0073112 0073440 0073458 0073648 0073648 0073728 0074649 "
       \o "0074752 0074862 0074880 0075075 0077712 0077808 0077824 0078894 0082944 0083526 0092160 0092728 0092736 0092766 0092784 0092862 0092880 0092909 0092928 0092975 0092992 0092995 0093027 0093047 0093053 0093071 0093760 0093823 0093952 0094026 0094032 0094032 0094099 0094111 0094176 0094177 0094179 0094179 0094208 0100343 0100352 0101589 0101632 0101640 0110576 0110579 0110581 0110587 0110589 0110590 0110592 0110882 0110928 0110930 0110948 0110951 0110960 0111355 0113664 0113770 0113776 0113788 0113792 0113800 0113808 0113817 0119808 0119892 0119894 0119964 0119966 0119967 0119970 0119970 0119973 0119974 0119977 0119980 0119982 0119993 0119995 0119995 0119997 0120003 0120005 0120069 0120071 0120074 0120077 0120084 0120086 0120092 0120094 0120121 0120123 0120126 0120128 0120132 0120134 0120134 0120138 0120144 0120146 0120485 0120488 0120512 0120514 0120538 0120540 0120570 0120572 0120596 0120598 0120628 0120630 0120654 0120656 0120686 0120688 0120712 "
       \o "0120714 0120744 0120746 0120770 0120772 0120779 0122624 0122654 0123136 0123180 0123191 0123197 0123214 0123214 0123536 0123565 0123584 0123627 0124896 0124902 0124904 0124907 0124909 0124910 0124912 0124926 0124928 0125124 0125184 0125251 0125259 0125259 0126464 0126467 0126469 0126495 0126497 0126498 0126500 0126500 0126503 0126503 0126505 0126514 0126516 0126519 0126521 0126521 0126523 0126523 0126530 0126530 0126535 0126535 0126537 0126537 0126539 0126539 0126541 0126543 0126545 0126546 0126548 0126548 0126551 0126551 0126553 0126553 0126555 0126555 0126557 0126557 0126559 0126559 0126561 0126562 0126564 0126564 0126567 0126570 0126572 0126578 0126580 0126583 0126585 0126588 0126590 0126590 0126592 0126601 0126603 0126619 0126625 0126627 0126629 0126633 0126635 0126651 0131072 0173791 0173824 0177976 0177984 0178205 0178208 0183969 0183984 0191456 0194560 0195101 0196608 0201546",
       2)

\* The characters a Python identifier may go on with
XidContinueRanges ==
  Rows("0000048 0000057 0000065 0000090 0000095 0000095 0000097 0000122 0000170 0000170 0000181 0000181 0000183 0000183 0000186 0000186 0000192 0000214 0000216 0000246 0000248 0000705 0000710 0000721 0000736 0000740 0000748 0000748 0000750 0000750 0000768 0000884 0000886 0000887 0000891 0000893 0000895 0000895 0000902 0000906 0000908 0000908 0000910 0000929 0000931 0001013 0001015 0001153 0001155 0001159 0001162 0001327 0001329 0001366 0001369 0001369 0001376 0001416 0001425 0001469 0001471 0001471 0001473 0001474 0001476 0001477 0001479 0001479 0001488 0001514 0001519 0001522 0001552 0001562 0001568 0001641 0001646 0001747 0001749 0001756 0001759 0001768 0001770 0001788 0001791 0001791 0001808 0001866 0001869 0001969 0001984 0002037 0002042 0002042 0002045 0002045 0002048 0002093 0002112 0002139 0002144 0002154 0002160 0002183 0002185 0002190 0002200 0002273 0002275 0002403 0002406 0002415 0002417 0002435 0002437 0002444 0002447 0002448 0002451 0002472 "
       \o "0002474 0002480 0002482 0002482 0002486 0002489 0002492 0002500 0002503 0002504 0002507 0002510 0002519 0002519 0002524 0002525 0002527 0002531 0002534 0002545 0002556 0002556 0002558 0002558 0002561 0002563 0002565 0002570 0002575 0002576 0002579 0002600 0002602 0002608 0002610 0002611 0002613 0002614 0002616 0002617 0002620 0002620 0002622 0002626 0002631 0002632 0002635 0002637 0002641 0002641 0002649 0002652 0002654 0002654 0002662 0002677 0002689 0002691 0002693 0002701 0002703 0002705 0002707 0002728 0002730 0002736 0002738 0002739 0002741 0002745 0002748 0002757 0002759 0002761 0002763 0002765 0002768 0002768 0002784 0002787 0002790 0002799 0002809 0002815 0002817 0002819 0002821 0002828 0002831 0002832 0002835 0002856 0002858 0002864 0002866 0002867 0002869 0002873 0002876 0002884 0002887 0002888 0002891 0002893 0002901 0002903 0002908 0002909 0002911 0002915 0002918 0002927 0002929 0002929 0002946 0002947 0002949 0002954 0002958 0002960 "
       \o "0002962 0002965 0002969 0002970 0002972 0002972 0002974 0002975 0002979 0002980 0002984 0002986 0002990 0003001 0003006 0003010 0003014 0003016 0003018 0003021 0003024 0003024 0003031 0003031 0003046 0003055 0003072 0003084 0003086 0003088 0003090 0003112 0003114 0003129 0003132 0003140 0003142 0003144 0003146 0003149 0003157 0003158 0003160 0003162 0003165 0003165 0003168 0003171 0003174 0003183 0003200 0003203 0003205 0003212 0003214 0003216 0003218 0003240 0003242 0003251 0003253 0003257 0003260 0003268 0003270 0003272 0003274 0003277 0003285 0003286 0003293 0003294 0003296 0003299 0003302 0003311 0003313 0003314 0003328 0003340 0003342 0003344 0003346 0003396 0003398 0003400 0003402 0003406 0003412 0003415 0003423 0003427 0003430 0003439 0003450 0003455 0003457 0003459 0003461 0003478 0003482 0003505 0003507 0003515 0003517 0003517 0003520 0003526 0003530 0003530 0003535 0003540 0003542 0003542 0003544 0003551 0003558 0003567 0003570 0003571 "
       \o "0003585 0003642 0003648 0003662 0003664 0003673 0003713 0003714 0003716 0003716 0003718 0003722 0003724 0003747 0003749 0003749 0003751 0003773 0003776 0003780 0003782 0003782 0003784 0003789 0003792 0003801 0003804 0003807 0003840 0003840 0003864 0003865 0003872 0003881 0003893 0003893 0003895 0003895 0003897 0003897 0003902 0003911 0003913 0003948 0003953 0003972 0003974 0003991 0003993 0004028 0004038 0004038 0004096 0004169 0004176 0004253 0004256 0004293 0004295 0004295 0004301 0004301 0004304 0004346 0004348 0004680 0004682 0004685 0004688 0004694 0004696 0004696 0004698 0004701 0004704 0004744 0004746 0004749 0004752 0004784 0004786 0004789 0004792 0004798 0004800 0004800 0004802 0004805 0004808 0004822 0004824 0004880 0004882 0004885 0004888 0004954 0004957 0004959 0004969 0004977 0004992 0005007 0005024 0005109 0005112 0005117 0005121 0005740 0005743 0005759 0005761 0005786 0005792 0005866 0005870 0005880 0005888 0005909 0005919 0005940 "
       \o "0005952 0005971 0005984 0005996 0005998 0006000 0006002 0006003 0006016 0006099 0006103 0006103 0006108 0006109 0006112 0006121 0006155 0006157 0006159 0006169 0006176 0006264 0006272 0006314 0006320 0006389 0006400 0006430 0006432 0006443 0006448 0006459 0006470 0006509 0006512 0006516 0006528 0006571 0006576 0006601 0006608 0006618 0006656 0006683 0006688 0006750 0006752 0006780 0006783 0006793 0006800 0006809 0006823 0006823 0006832 0006845 0006847 0006862 0006912 0006988 0006992 0007001 0007019 0007027 0007040 0007155 0007168 0007223 0007232 0007241 0007245 0007293 0007296 0007304 0007312 0007354 0007357 0007359 0007376 0007378 0007380 0007418 0007424 0007957 0007960 0007965 0007968 0008005 0008008 0008013 0008016 0008023 0008025 0008025 0008027 0008027 0008029 0008029 0008031 0008061 0008064 0008116 0008118 0008124 0008126 0008126 0008130 0008132 0008134 0008140 0008144 0008147 0008150 0008155 0008160 0008172 0008178 0008180 0008182 0008188 "
       \o "0008255 0008256 0008276 0008276 0008305 0008305 0008319 0008319 0008336 0008348 0008400 0008412 0008417 0008417 0008421 0008432 0008450 0008450 0008455 0008455 0008458 0008467 0008469 0008469 0008472 0008477 0008484 0008484 0008486 0008486 0008488 0008488 0008490 0008505 0008508 0008511 0008517 0008521 0008526 0008526 0008544 0008584 0011264 0011492 0011499 0011507 0011520 0011557 0011559 0011559 0011565 0011565 0011568 0011623 0011631 0011631 0011647 0011670 0011680 0011686 0011688 0011694 0011696 0011702 0011704 0011710 0011712 0011718 0011720 0011726 0011728 0011734 0011736 0011742 0011744 0011775 0012293 0012295 0012321 0012335 0012337 0012341 0012344 0012348 0012353 0012438 0012441 0012442 0012445 0012447 0012449 0012538 0012540 0012543 0012549 0012591 0012593 0012686 0012704 0012735 0012784 0012799 0013312 0019903 0019968 0042124 0042192 0042237 0042240 0042508 0042512 0042539 0042560 0042607 0042612 0042621 0042623 0042737 0042775 0042783 "
       \o "0042786 0042888 0042891 0042954 0042960 0042961 0042963 0042963 0042965 0042969 0042994 0043047 0043052 0043052 0043072 0043123 0043136 0043205 0043216 0043225 0043232 0043255 0043259 0043259 0043261 0043309 0043312 0043347 0043360 0043388 0043392 0043456 0043471 0043481 0043488 0043518 0043520 0043574 0043584 0043597 0043600 0043609 0043616 0043638 0043642 0043714 0043739 0043741 0043744 0043759 0043762 0043766 0043777 0043782 0043785 0043790 0043793 0043798 0043808 0043814 0043816 0043822 0043824 0043866 0043868 0043881 0043888 0044010 0044012 0044013 0044016 0044025 0044032 0055203 0055216 0055238 0055243 0055291 0063744 0064109 0064112 0064217 0064256 0064262 0064275 0064279 0064285 0064296 0064298 0064310 0064312 0064316 0064318 0064318 0064320 0064321 0064323 0064324 0064326 0064433 0064467 0064605 0064612 0064829 0064848 0064911 0064914 0064967 0065008 0065017 0065024 0065039 0065056 0065071 0065075 0065076 0065101 0065103 0065137 0065137 "
       \o "0065139 0065139 0065143 0065143 0065145 0065145 0065147 0065147 0065149 0065149 0065151 0065276 0065296 0065305 0065313 0065338 0065343 0065343 0065345 0065370 0065382 0065470 0065474 0065479 0065482 0065487 0065490 0065495 0065498 0065500 0065536 0065547 0065549 0065574 0065576 0065594 0065596 0065597 0065599 0065613 0065616 0065629 0065664 0065786 0065856 0065908 0066045 0066045 0066176 0066204 0066208 0066256 0066272 0066272 0066304 0066335 0066349 0066378 0066384 0066426 0066432 0066461 0066464 0066499 0066504 0066511 0066513 0066517 0066560 0066717 0066720 0066729 0066736 0066771 0066776 0066811 0066816 0066855 0066864 0066915 0066928 0066938 0066940 0066954 0066956 0066962 0066964 0066965 0066967 0066977 0066979 0066993 0066995 0067001 0067003 0067004 0067072 0067382 0067392 0067413 0067424 0067431 0067456 0067461 0067463 0067504 0067506 0067514 0067584 0067589 0067592 0067592 0067594 0067637 0067639 0067640 0067644 0067644 0067647 0067669 "
       \o "0067680 0067702 0067712 0067742 0067808 0067826 0067828 0067829 0067840 0067861 0067872 0067897 0067968 0068023 0068030 0068031 0068096 0068099 0068101 0068102 0068108 0068115 0068117 0068119 0068121 0068149 0068152 0068154 0068159 0068159 0068192 0068220 0068224 0068252 0068288 0068295 0068297 0068326 0068352 0068405 0068416 0068437 0068448 0068466 0068480 0068497 0068608 0068680 0068736 0068786 0068800 0068850 0068864 0068903 0068912 0068921 0069248 0069289 0069291 0069292 0069296 0069297 0069376 0069404 0069415 0069415 0069424 0069456 0069488 0069509 0069552 0069572 0069600 0069622 0069632 0069702 0069734 0069749 0069759 0069818 0069826 0069826 0069840 0069864 0069872 0069881 0069888 0069940 0069942 0069951 0069956 0069959 0069968 0070003 0070006 0070006 0070016 0070084 0070089 0070092 0070094 0070106 0070108 0070108 0070144 0070161 0070163 0070199 0070206 0070206 0070272 0070278 0070280 0070280 0070282 0070285 0070287 0070301 0070303 0070312 "
       \o "0070320 0070378 0070384 0070393 0070400 0070403 0070405 0070412 0070415 0070416 0070419 0070440 0070442 0070448 0070450 0070451 0070453 0070457 0070459 0070468 0070471 0070472 0070475 0070477 0070480 0070480 0070487 0070487 0070493 0070499 0070502 0070508 0070512 0070516 0070656 0070730 0070736 0070745 0070750 0070753 0070784 0070853 0070855 0070855 0070864 0070873 0071040 0071093 0071096 0071104 0071128 0071133 0071168 0071232 0071236 0071236 0071248 0071257 0071296 0071352 0071360 0071369 0071424 0071450 0071453 0071467 0071472 0071481 0071488 0071494 0071680 0071738 0071840 0071913 0071935 0071942 0071945 0071945 0071948 0071955 0071957 0071958 0071960 0071989 0071991 0071992 0071995 0072003 0072016 0072025 0072096 0072103 0072106 0072151 0072154 0072161 0072163 0072164 0072192 0072254 0072263 0072263 0072272 0072345 0072349 0072349 0072368 0072440 0072704 0072712 0072714 0072758 0072760 0072768 0072784 0072793 0072818 0072847 0072850 0072871 "
       \o "0072873 0072886 0072960 0072966 0072968 0072969 0072971 0073014 0073018 0073018 0073020 0073021 0073023 0073031 0073040 0073049 0073056 0073061 0073063 0073064 0073066 0073102 0073104 0073105 0073107 0073112 0073120 0073129 0073440 0073462 0073648 0073648 0073728 0074649 0074752 0074862 0074880 0075075 0077712 0077808 0077824 0078894 0082944 0083526 0092160 0092728 0092736 0092766 0092768 0092777 0092784 0092862 0092864 0092873 0092880 0092909 0092912 0092916 0092928 0092982 0092992 0092995 0093008 0093017 0093027 0093047 0093053 0093071 0093760 0093823 0093952 0094026 0094031 0094087 0094095 0094111 0094176 0094177 0094179 0094180 0094192 0094193 0094208 0100343 0100352 0101589 0101632 0101640 0110576 0110579 0110581 0110587 0110589 0110590 0110592 0110882 0110928 0110930 0110948 0110951 0110960 0111355 0113664 0113770 0113776 0113788 0113792 0113800 0113808 0113817 0113821 0113822 0118528 0118573 0118576 0118598 0119141 0119145 0119149 0119154 "
       \o "0119163 0119170 0119173 0119179 0119210 0119213 0119362 0119364 0119808 0119892 0119894 0119964 0119966 0119967 0119970 0119970 0119973 0119974 0119977 0119980 0119982 0119993 0119995 0119995 0119997 0120003 0120005 0120069 0120071 0120074 0120077 0120084 0120086 0120092 0120094 0120121 0120123 0120126 0120128 0120132 0120134 0120134 0120138 0120144 0120146 0120485 0120488 0120512 0120514 0120538 0120540 0120570 0120572 0120596 0120598 0120628 0120630 0120654 0120656 0120686 0120688 0120712 0120714 0120744 0120746 0120770 0120772 0120779 0120782 0120831 0121344 0121398 0121403 0121452 0121461 0121461 0121476 0121476 0121499 0121503 0121505 0121519 0122624 0122654 0122880 0122886 0122888 0122904 0122907 0122913 0122915 0122916 0122918 0122922 0123136 0123180 0123184 0123197 0123200 0123209 0123214 0123214 0123536 0123566 0123584 0123641 0124896 0124902 0124904 0124907 0124909 0124910 0124912 0124926 0124928 0125124 0125136 0125142 0125184 0125259 "
       \o "0125264 0125273 0126464 0126467 0126469 0126495 0126497 0126498 0126500 0126500 0126503 0126503 0126505 0126514 0126516 0126519 0126521 0126521 0126523 0126523 0126530 0126530 0126535 0126535 0126537 0126537 0126539 0126539 0126541 0126543 0126545 0126546 0126548 0126548 0126551 0126551 0126553 0126553 0126555 0126555 0126557 0126557 0126559 0126559 0126561 0126562 0126564 0126564 0126567 0126570 0126572 0126578 0126580 0126583 0126585 0126588 0126590 0126590 0126592 0126601 0126603 0126619 0126625 0126627 0126629 0126633 0126635 0126651 0130032 0130041 0131072 0173791 0173824 0177976 0177984 0178205 0178208 0183969 0183984 0191456 0194560 0195101 0196608 0201546 0917760 0917999",
       2)

\* The characters str.isprintable() holds of, which repr leaves as they are
PrintableRanges ==
  Rows("0000032 0000126 0000161 0000172 0000174 0000887 0000890 0000895 0000900 0000906 0000908 0000908 0000910 0000929 0000931 0001327 0001329 0001366 0001369 0001418 0001421 0001423 0001425 0001479 0001488 0001514 0001519 0001524 0001542 0001563 0001565 0001756 0001758 0001805 0001808 0001866 0001869 0001969 0001984 0002042 0002045 0002093 0002096 0002110 0002112 0002139 0002142 0002142 0002144 0002154 0002160 0002190 0002200 0002273 0002275 0002435 0002437 0002444 0002447 0002448 0002451 0002472 0002474 0002480 0002482 0002482 0002486 0002489 0002492 0002500 0002503 0002504 0002507 0002510 0002519 0002519 0002524 0002525 0002527 0002531 0002534 0002558 0002561 0002563 0002565 0002570 0002575 0002576 0002579 0002600 0002602 0002608 0002610 0002611 0002613 0002614 0002616 0002617 0002620 0002620 0002622 0002626 0002631 0002632 0002635 0002637 0002641 0002641 0002649 0002652 0002654 0002654 0002662 0002678 0002689 0002691 0002693 0002701 0002703 0002705 "
       \o "0002707 0002728 0002730 0002736 0002738 0002739 0002741 0002745 0002748 0002757 0002759 0002761 0002763 0002765 0002768 0002768 0002784 0002787 0002790 0002801 0002809 0002815 0002817 0002819 0002821 0002828 0002831 0002832 0002835 0002856 0002858 0002864 0002866 0002867 0002869 0002873 0002876 0002884 0002887 0002888 0002891 0002893 0002901 0002903 0002908 0002909 0002911 0002915 0002918 0002935 0002946 0002947 0002949 0002954 0002958 0002960 0002962 0002965 0002969 0002970 0002972 0002972 0002974 0002975 0002979 0002980 0002984 0002986 0002990 0003001 0003006 0003010 0003014 0003016 0003018 0003021 0003024 0003024 0003031 0003031 0003046 0003066 0003072 0003084 0003086 0003088 0003090 0003112 0003114 0003129 0003132 0003140 0003142 0003144 0003146 0003149 0003157 0003158 0003160 0003162 0003165 0003165 0003168 0003171 0003174 0003183 0003191 0003212 0003214 0003216 0003218 0003240 0003242 0003251 0003253 0003257 0003260 0003268 0003270 0003272 "
       \o "0003274 0003277 0003285 0003286 0003293 0003294 0003296 0003299 0003302 0003311 0003313 0003314 0003328 0003340 0003342 0003344 0003346 0003396 0003398 0003400 0003402 0003407 0003412 0003427 0003430 0003455 0003457 0003459 0003461 0003478 0003482 0003505 0003507 0003515 0003517 0003517 0003520 0003526 0003530 0003530 0003535 0003540 0003542 0003542 0003544 0003551 0003558 0003567 0003570 0003572 0003585 0003642 0003647 0003675 0003713 0003714 0003716 0003716 0003718 0003722 0003724 0003747 0003749 0003749 0003751 0003773 0003776 0003780 0003782 0003782 0003784 0003789 0003792 0003801 0003804 0003807 0003840 0003911 0003913 0003948 0003953 0003991 0003993 0004028 0004030 0004044 0004046 0004058 0004096 0004293 0004295 0004295 0004301 0004301 0004304 0004680 0004682 0004685 0004688 0004694 0004696 0004696 0004698 0004701 0004704 0004744 0004746 0004749 0004752 0004784 0004786 0004789 0004792 0004798 0004800 0004800 0004802 0004805 0004808 0004822 "
       \o "0004824 0004880 0004882 0004885 0004888 0004954 0004957 0004988 0004992 0005017 0005024 0005109 0005112 0005117 0005120 0005759 0005761 0005788 0005792 0005880 0005888 0005909 0005919 0005942 0005952 0005971 0005984 0005996 0005998 0006000 0006002 0006003 0006016 0006109 0006112 0006121 0006128 0006137 0006144 0006157 0006159 0006169 0006176 0006264 0006272 0006314 0006320 0006389 0006400 0006430 0006432 0006443 0006448 0006459 0006464 0006464 0006468 0006509 0006512 0006516 0006528 0006571 0006576 0006601 0006608 0006618 0006622 0006683 0006686 0006750 0006752 0006780 0006783 0006793 0006800 0006809 0006816 0006829 0006832 0006862 0006912 0006988 0006992 0007038 0007040 0007155 0007164 0007223 0007227 0007241 0007245 0007304 0007312 0007354 0007357 0007367 0007376 0007418 0007424 0007957 0007960 0007965 0007968 0008005 0008008 0008013 0008016 0008023 0008025 0008025 0008027 0008027 0008029 0008029 0008031 0008061 0008064 0008116 0008118 0008132 "
       \o "0008134 0008147 0008150 0008155 0008157 0008175 0008178 0008180 0008182 0008190 0008208 0008231 0008240 0008286 0008304 0008305 0008308 0008334 0008336 0008348 0008352 0008384 0008400 0008432 0008448 0008587 0008592 0009254 0009280 0009290 0009312 0011123 0011126 0011157 0011159 0011507 0011513 0011557 0011559 0011559 0011565 0011565 0011568 0011623 0011631 0011632 0011647 0011670 0011680 0011686 0011688 0011694 0011696 0011702 0011704 0011710 0011712 0011718 0011720 0011726 0011728 0011734 0011736 0011742 0011744 0011869 0011904 0011929 0011931 0012019 0012032 0012245 0012272 0012283 0012289 0012351 0012353 0012438 0012441 0012543 0012549 0012591 0012593 0012686 0012688 0012771 0012784 0012830 0012832 0042124 0042128 0042182 0042192 0042539 0042560 0042743 0042752 0042954 0042960 0042961 0042963 0042963 0042965 0042969 0042994 0043052 0043056 0043065 0043072 0043127 0043136 0043205 0043214 0043225 0043232 0043347 0043359 0043388 0043392 0043469 "
       \o "0043471 0043481 0043486 0043518 0043520 0043574 0043584 0043597 0043600 0043609 0043612 0043714 0043739 0043766 0043777 0043782 0043785 0043790 0043793 0043798 0043808 0043814 0043816 0043822 0043824 0043883 0043888 0044013 0044016 0044025 0044032 0055203 0055216 0055238 0055243 0055291 0063744 0064109 0064112 0064217 0064256 0064262 0064275 0064279 0064285 0064310 0064312 0064316 0064318 0064318 0064320 0064321 0064323 0064324 0064326 0064450 0064467 0064911 0064914 0064967 0064975 0064975 0065008 0065049 0065056 0065106 0065108 0065126 0065128 0065131 0065136 0065140 0065142 0065276 0065281 0065470 0065474 0065479 0065482 0065487 0065490 0065495 0065498 0065500 0065504 0065510 0065512 0065518 0065532 0065533 0065536 0065547 0065549 0065574 0065576 0065594 0065596 0065597 0065599 0065613 0065616 0065629 0065664 0065786 0065792 0065794 0065799 0065843 0065847 0065934 0065936 0065948 0065952 0065952 0066000 0066045 0066176 0066204 0066208 0066256 "
       \o "0066272 0066299 0066304 0066339 0066349 0066378 0066384 0066426 0066432 0066461 0066463 0066499 0066504 0066517 0066560 0066717 0066720 0066729 0066736 0066771 0066776 0066811 0066816 0066855 0066864 0066915 0066927 0066938 0066940 0066954 0066956 0066962 0066964 0066965 0066967 0066977 0066979 0066993 0066995 0067001 0067003 0067004 0067072 0067382 0067392 0067413 0067424 0067431 0067456 0067461 0067463 0067504 0067506 0067514 0067584 0067589 0067592 0067592 0067594 0067637 0067639 0067640 0067644 0067644 0067647 0067669 0067671 0067742 0067751 0067759 0067808 0067826 0067828 0067829 0067835 0067867 0067871 0067897 0067903 0067903 0067968 0068023 0068028 0068047 0068050 0068099 0068101 0068102 0068108 0068115 0068117 0068119 0068121 0068149 0068152 0068154 0068159 0068168 0068176 0068184 0068192 0068255 0068288 0068326 0068331 0068342 0068352 0068405 0068409 0068437 0068440 0068466 0068472 0068497 0068505 0068508 0068521 0068527 0068608 0068680 "
       \o "0068736 0068786 0068800 0068850 0068858 0068903 0068912 0068921 0069216 0069246 0069248 0069289 0069291 0069293 0069296 0069297 0069376 0069415 0069424 0069465 0069488 0069513 0069552 0069579 0069600 0069622 0069632 0069709 0069714 0069749 0069759 0069820 0069822 0069826 0069840 0069864 0069872 0069881 0069888 0069940 0069942 0069959 0069968 0070006 0070016 0070111 0070113 0070132 0070144 0070161 0070163 0070206 0070272 0070278 0070280 0070280 0070282 0070285 0070287 0070301 0070303 0070313 0070320 0070378 0070384 0070393 0070400 0070403 0070405 0070412 0070415 0070416 0070419 0070440 0070442 0070448 0070450 0070451 0070453 0070457 0070459 0070468 0070471 0070472 0070475 0070477 0070480 0070480 0070487 0070487 0070493 0070499 0070502 0070508 0070512 0070516 0070656 0070747 0070749 0070753 0070784 0070855 0070864 0070873 0071040 0071093 0071096 0071133 0071168 0071236 0071248 0071257 0071264 0071276 0071296 0071353 0071360 0071369 0071424 0071450 "
       \o "0071453 0071467 0071472 0071494 0071680 0071739 0071840 0071922 0071935 0071942 0071945 0071945 0071948 0071955 0071957 0071958 0071960 0071989 0071991 0071992 0071995 0072006 0072016 0072025 0072096 0072103 0072106 0072151 0072154 0072164 0072192 0072263 0072272 0072354 0072368 0072440 0072704 0072712 0072714 0072758 0072760 0072773 0072784 0072812 0072816 0072847 0072850 0072871 0072873 0072886 0072960 0072966 0072968 0072969 0072971 0073014 0073018 0073018 0073020 0073021 0073023 0073031 0073040 0073049 0073056 0073061 0073063 0073064 0073066 0073102 0073104 0073105 0073107 0073112 0073120 0073129 0073440 0073464 0073648 0073648 0073664 0073713 0073727 0074649 0074752 0074862 0074864 0074868 0074880 0075075 0077712 0077810 0077824 0078894 0082944 0083526 0092160 0092728 0092736 0092766 0092768 0092777 0092782 0092862 0092864 0092873 0092880 0092909 0092912 0092917 0092928 0092997 0093008 0093017 0093019 0093025 0093027 0093047 0093053 0093071 "
       \o "0093760 0093850 0093952 0094026 0094031 0094087 0094095 0094111 0094176 0094180 0094192 0094193 0094208 0100343 0100352 0101589 0101632 0101640 0110576 0110579 0110581 0110587 0110589 0110590 0110592 0110882 0110928 0110930 0110948 0110951 0110960 0111355 0113664 0113770 0113776 0113788 0113792 0113800 0113808 0113817 0113820 0113823 0118528 0118573 0118576 0118598 0118608 0118723 0118784 0119029 0119040 0119078 0119081 0119154 0119163 0119274 0119296 0119365 0119520 0119539 0119552 0119638 0119648 0119672 0119808 0119892 0119894 0119964 0119966 0119967 0119970 0119970 0119973 0119974 0119977 0119980 0119982 0119993 0119995 0119995 0119997 0120003 0120005 0120069 0120071 0120074 0120077 0120084 0120086 0120092 0120094 0120121 0120123 0120126 0120128 0120132 0120134 0120134 0120138 0120144 0120146 0120485 0120488 0120779 0120782 0121483 0121499 0121503 0121505 0121519 0122624 0122654 0122880 0122886 0122888 0122904 0122907 0122913 0122915 0122916 "
       \o "0122918 0122922 0123136 0123180 0123184 0123197 0123200 0123209 0123214 0123215 0123536 0123566 0123584 0123641 0123647 0123647 0124896 0124902 0124904 0124907 0124909 0124910 0124912 0124926 0124928 0125124 0125127 0125142 0125184 0125259 0125264 0125273 0125278 0125279 0126065 0126132 0126209 0126269 0126464 0126467 0126469 0126495 0126497 0126498 0126500 0126500 0126503 0126503 0126505 0126514 0126516 0126519 0126521 0126521 0126523 0126523 0126530 0126530 0126535 0126535 0126537 0126537 0126539 0126539 0126541 0126543 0126545 0126546 0126548 0126548 0126551 0126551 0126553 0126553 0126555 0126555 0126557 0126557 0126559 0126559 0126561 0126562 0126564 0126564 0126567 0126570 0126572 0126578 0126580 0126583 0126585 0126588 0126590 0126590 0126592 0126601 0126603 0126619 0126625 0126627 0126629 0126633 0126635 0126651 0126704 0126705 0126976 0127019 0127024 0127123 0127136 0127150 0127153 0127167 0127169 0127183 0127185 0127221 0127232 0127405 "
       \o "0127462 0127490 0127504 0127547 0127552 0127560 0127568 0127569 0127584 0127589 0127744 0128727 0128733 0128748 0128752 0128764 0128768 0128883 0128896 0128984 0128992 0129003 0129008 0129008 0129024 0129035 0129040 0129095 0129104 0129113 0129120 0129159 0129168 0129197 0129200 0129201 0129280 0129619 0129632 0129645 0129648 0129652 0129656 0129660 0129664 0129670 0129680 0129708 0129712 0129722 0129728 0129733 0129744 0129753 0129760 0129767 0129776 0129782 0129792 0129938 0129940 0129994 0130032 0130041 0131072 0173791 0173824 0177976 0177984 0178205 0178208 0183969 0183984 0191456 0194560 0195101 0196608 0201546 0917760 0917999",
       2)

\* str.lower() of one character: <<lo, hi, step, to>> says that to is the
\* lower-case form of lo, and c - lo + to that of every c = lo + k * step up
\* to hi
LowerRuns ==
  Rows("0000065 0000090 0000001 0000097 0000192 0000214 0000001 0000224 0000216 0000222 0000001 0000248 0000256 0000302 0000002 0000257 0000306 0000310 0000002 0000307 0000313 0000327 0000002 0000314 0000330 0000374 0000002 0000331 0000376 0000376 0000001 0000255 0000377 0000381 0000002 0000378 0000385 0000385 0000001 0000595 0000386 0000388 0000002 0000387 0000390 0000390 0000001 0000596 0000391 0000391 0000001 0000392 0000393 0000394 0000001 0000598 0000395 0000395 0000001 0000396 0000398 0000398 0000001 0000477 0000399 0000399 0000001 0000601 0000400 0000400 0000001 0000603 0000401 0000401 0000001 0000402 0000403 0000403 0000001 0000608 0000404 0000404 0000001 0000611 0000406 0000406 0000001 0000617 0000407 0000407 0000001 0000616 0000408 0000408 0000001 0000409 0000412 0000412 0000001 0000623 0000413 0000413 0000001 0000626 0000415 0000415 0000001 0000629 0000416 0000420 0000002 0000417 0000422 0000422 0000001 0000640 0000423 0000423 0000001 0000424 "
       \o "0000425 0000425 0000001 0000643 0000428 0000428 0000001 0000429 0000430 0000430 0000001 0000648 0000431 0000431 0000001 0000432 0000433 0000434 0000001 0000650 0000435 0000437 0000002 0000436 0000439 0000439 0000001 0000658 0000440 0000440 0000001 0000441 0000444 0000444 0000001 0000445 0000452 0000452 0000001 0000454 0000453 0000453 0000001 0000454 0000455 0000455 0000001 0000457 0000456 0000456 0000001 0000457 0000458 0000458 0000001 0000460 0000459 0000475 0000002 0000460 0000478 0000494 0000002 0000479 0000497 0000497 0000001 0000499 0000498 0000500 0000002 0000499 0000502 0000502 0000001 0000405 0000503 0000503 0000001 0000447 0000504 0000542 0000002 0000505 0000544 0000544 0000001 0000414 0000546 0000562 0000002 0000547 0000570 0000570 0000001 0011365 0000571 0000571 0000001 0000572 0000573 0000573 0000001 0000410 0000574 0000574 0000001 0011366 0000577 0000577 0000001 0000578 0000579 0000579 0000001 0000384 0000580 0000580 0000001 0000649 "
       \o "0000581 0000581 0000001 0000652 0000582 0000590 0000002 0000583 0000880 0000882 0000002 0000881 0000886 0000886 0000001 0000887 0000895 0000895 0000001 0001011 0000902 0000902 0000001 0000940 0000904 0000906 0000001 0000941 0000908 0000908 0000001 0000972 0000910 0000911 0000001 0000973 0000913 0000929 0000001 0000945 0000931 0000939 0000001 0000963 0000975 0000975 0000001 0000983 0000984 0001006 0000002 0000985 0001012 0001012 0000001 0000952 0001015 0001015 0000001 0001016 0001017 0001017 0000001 0001010 0001018 0001018 0000001 0001019 0001021 0001023 0000001 0000891 0001024 0001039 0000001 0001104 0001040 0001071 0000001 0001072 0001120 0001152 0000002 0001121 0001162 0001214 0000002 0001163 0001216 0001216 0000001 0001231 0001217 0001229 0000002 0001218 0001232 0001326 0000002 0001233 0001329 0001366 0000001 0001377 0004256 0004293 0000001 0011520 0004295 0004295 0000001 0011559 0004301 0004301 0000001 0011565 0005024 0005103 0000001 0043888 "
       \o "0005104 0005109 0000001 0005112 0007312 0007354 0000001 0004304 0007357 0007359 0000001 0004349 0007680 0007828 0000002 0007681 0007838 0007838 0000001 0000223 0007840 0007934 0000002 0007841 0007944 0007951 0000001 0007936 0007960 0007965 0000001 0007952 0007976 0007983 0000001 0007968 0007992 0007999 0000001 0007984 0008008 0008013 0000001 0008000 0008025 0008031 0000002 0008017 0008040 0008047 0000001 0008032 0008072 0008079 0000001 0008064 0008088 0008095 0000001 0008080 0008104 0008111 0000001 0008096 0008120 0008121 0000001 0008112 0008122 0008123 0000001 0008048 0008124 0008124 0000001 0008115 0008136 0008139 0000001 0008050 0008140 0008140 0000001 0008131 0008152 0008153 0000001 0008144 0008154 0008155 0000001 0008054 0008168 0008169 0000001 0008160 0008170 0008171 0000001 0008058 0008172 0008172 0000001 0008165 0008184 0008185 0000001 0008056 0008186 0008187 0000001 0008060 0008188 0008188 0000001 0008179 0008486 0008486 0000001 0000969 "
       \o "0008490 0008490 0000001 0000107 0008491 0008491 0000001 0000229 0008498 0008498 0000001 0008526 0008544 0008559 0000001 0008560 0008579 0008579 0000001 0008580 0009398 0009423 0000001 0009424 0011264 0011311 0000001 0011312 0011360 0011360 0000001 0011361 0011362 0011362 0000001 0000619 0011363 0011363 0000001 0007549 0011364 0011364 0000001 0000637 0011367 0011371 0000002 0011368 0011373 0011373 0000001 0000593 0011374 0011374 0000001 0000625 0011375 0011375 0000001 0000592 0011376 0011376 0000001 0000594 0011378 0011378 0000001 0011379 0011381 0011381 0000001 0011382 0011390 0011391 0000001 0000575 0011392 0011490 0000002 0011393 0011499 0011501 0000002 0011500 0011506 0011506 0000001 0011507 0042560 0042604 0000002 0042561 0042624 0042650 0000002 0042625 0042786 0042798 0000002 0042787 0042802 0042862 0000002 0042803 0042873 0042875 0000002 0042874 0042877 0042877 0000001 0007545 0042878 0042886 0000002 0042879 0042891 0042891 0000001 0042892 "
       \o "0042893 0042893 0000001 0000613 0042896 0042898 0000002 0042897 0042902 0042920 0000002 0042903 0042922 0042922 0000001 0000614 0042923 0042923 0000001 0000604 0042924 0042924 0000001 0000609 0042925 0042925 0000001 0000620 0042926 0042926 0000001 0000618 0042928 0042928 0000001 0000670 0042929 0042929 0000001 0000647 0042930 0042930 0000001 0000669 0042931 0042931 0000001 0043859 0042932 0042946 0000002 0042933 0042948 0042948 0000001 0042900 0042949 0042949 0000001 0000642 0042950 0042950 0000001 0007566 0042951 0042953 0000002 0042952 0042960 0042960 0000001 0042961 0042966 0042968 0000002 0042967 0042997 0042997 0000001 0042998 0065313 0065338 0000001 0065345 0066560 0066599 0000001 0066600 0066736 0066771 0000001 0066776 0066928 0066938 0000001 0066967 0066940 0066954 0000001 0066979 0066956 0066962 0000001 0066995 0066964 0066965 0000001 0067003 0068736 0068786 0000001 0068800 0071840 0071871 0000001 0071872 0093760 0093791 0000001 0093792 "
       \o "0125184 0125217 0000001 0125218",
       4)

\* The cased characters, which str.lower() looks for around a capital sigma
CasedRanges ==
  Rows("0000065 0000090 0000097 0000122 0000170 0000170 0000181 0000181 0000186 0000186 0000192 0000214 0000216 0000246 0000248 0000442 0000444 0000447 0000452 0000659 0000661 0000696 0000704 0000705 0000736 0000740 0000837 0000837 0000880 0000883 0000886 0000887 0000890 0000893 0000895 0000895 0000902 0000902 0000904 0000906 0000908 0000908 0000910 0000929 0000931 0001013 0001015 0001153 0001162 0001327 0001329 0001366 0001376 0001416 0004256 0004293 0004295 0004295 0004301 0004301 0004304 0004346 0004349 0004351 0005024 0005109 0005112 0005117 0007296 0007304 0007312 0007354 0007357 0007359 0007424 0007615 0007680 0007957 0007960 0007965 0007968 0008005 0008008 0008013 0008016 0008023 0008025 0008025 0008027 0008027 0008029 0008029 0008031 0008061 0008064 0008116 0008118 0008124 0008126 0008126 0008130 0008132 0008134 0008140 0008144 0008147 0008150 0008155 0008160 0008172 0008178 0008180 0008182 0008188 0008305 0008305 0008319 0008319 0008336 0008348 "
       \o "0008450 0008450 0008455 0008455 0008458 0008467 0008469 0008469 0008473 0008477 0008484 0008484 0008486 0008486 0008488 0008488 0008490 0008493 0008495 0008500 0008505 0008505 0008508 0008511 0008517 0008521 0008526 0008526 0008544 0008575 0008579 0008580 0009398 0009449 0011264 0011492 0011499 0011502 0011506 0011507 0011520 0011557 0011559 0011559 0011565 0011565 0042560 0042605 0042624 0042653 0042786 0042887 0042891 0042894 0042896 0042954 0042960 0042961 0042963 0042963 0042965 0042969 0042997 0042998 0043000 0043002 0043824 0043866 0043868 0043880 0043888 0043967 0064256 0064262 0064275 0064279 0065313 0065338 0065345 0065370 0066560 0066639 0066736 0066771 0066776 0066811 0066928 0066938 0066940 0066954 0066956 0066962 0066964 0066965 0066967 0066977 0066979 0066993 0066995 0067001 0067003 0067004 0067456 0067456 0067459 0067461 0067463 0067504 0067506 0067514 0068736 0068786 0068800 0068850 0071840 0071903 0093760 0093823 0119808 0119892 "
       \o "0119894 0119964 0119966 0119967 0119970 0119970 0119973 0119974 0119977 0119980 0119982 0119993 0119995 0119995 0119997 0120003 0120005 0120069 0120071 0120074 0120077 0120084 0120086 0120092 0120094 0120121 0120123 0120126 0120128 0120132 0120134 0120134 0120138 0120144 0120146 0120485 0120488 0120512 0120514 0120538 0120540 0120570 0120572 0120596 0120598 0120628 0120630 0120654 0120656 0120686 0120688 0120712 0120714 0120744 0120746 0120770 0120772 0120779 0122624 0122633 0122635 0122654 0125184 0125251 0127280 0127305 0127312 0127337 0127344 0127369",
       2)

\* The case-ignorable characters, which str.lower() skips around a capital
\* sigma
CaseIgnorableRanges ==
  Rows("0000039 0000039 0000046 0000046 0000058 0000058 0000094 0000094 0000096 0000096 0000168 0000168 0000173 0000173 0000175 0000175 0000180 0000180 0000183 0000184 0000688 0000879 0000884 0000885 0000890 0000890 0000900 0000901 0000903 0000903 0001155 0001161 0001369 0001369 0001375 0001375 0001425 0001469 0001471 0001471 0001473 0001474 0001476 0001477 0001479 0001479 0001524 0001524 0001536 0001541 0001552 0001562 0001564 0001564 0001600 0001600 0001611 0001631 0001648 0001648 0001750 0001757 0001759 0001768 0001770 0001773 0001807 0001807 0001809 0001809 0001840 0001866 0001958 0001968 0002027 0002037 0002042 0002042 0002045 0002045 0002070 0002093 0002137 0002139 0002184 0002184 0002192 0002193 0002200 0002207 0002249 0002306 0002362 0002362 0002364 0002364 0002369 0002376 0002381 0002381 0002385 0002391 0002402 0002403 0002417 0002417 0002433 0002433 0002492 0002492 0002497 0002500 0002509 0002509 0002530 0002531 0002558 0002558 0002561 0002562 "
       \o "0002620 0002620 0002625 0002626 0002631 0002632 0002635 0002637 0002641 0002641 0002672 0002673 0002677 0002677 0002689 0002690 0002748 0002748 0002753 0002757 0002759 0002760 0002765 0002765 0002786 0002787 0002810 0002815 0002817 0002817 0002876 0002876 0002879 0002879 0002881 0002884 0002893 0002893 0002901 0002902 0002914 0002915 0002946 0002946 0003008 0003008 0003021 0003021 0003072 0003072 0003076 0003076 0003132 0003132 0003134 0003136 0003142 0003144 0003146 0003149 0003157 0003158 0003170 0003171 0003201 0003201 0003260 0003260 0003263 0003263 0003270 0003270 0003276 0003277 0003298 0003299 0003328 0003329 0003387 0003388 0003393 0003396 0003405 0003405 0003426 0003427 0003457 0003457 0003530 0003530 0003538 0003540 0003542 0003542 0003633 0003633 0003636 0003642 0003654 0003662 0003761 0003761 0003764 0003772 0003782 0003782 0003784 0003789 0003864 0003865 0003893 0003893 0003895 0003895 0003897 0003897 0003953 0003966 0003968 0003972 "
       \o "0003974 0003975 0003981 0003991 0003993 0004028 0004038 0004038 0004141 0004144 0004146 0004151 0004153 0004154 0004157 0004158 0004184 0004185 0004190 0004192 0004209 0004212 0004226 0004226 0004229 0004230 0004237 0004237 0004253 0004253 0004348 0004348 0004957 0004959 0005906 0005908 0005938 0005939 0005970 0005971 0006002 0006003 0006068 0006069 0006071 0006077 0006086 0006086 0006089 0006099 0006103 0006103 0006109 0006109 0006155 0006159 0006211 0006211 0006277 0006278 0006313 0006313 0006432 0006434 0006439 0006440 0006450 0006450 0006457 0006459 0006679 0006680 0006683 0006683 0006742 0006742 0006744 0006750 0006752 0006752 0006754 0006754 0006757 0006764 0006771 0006780 0006783 0006783 0006823 0006823 0006832 0006862 0006912 0006915 0006964 0006964 0006966 0006970 0006972 0006972 0006978 0006978 0007019 0007027 0007040 0007041 0007074 0007077 0007080 0007081 0007083 0007085 0007142 0007142 0007144 0007145 0007149 0007149 0007151 0007153 "
       \o "0007212 0007219 0007222 0007223 0007288 0007293 0007376 0007378 0007380 0007392 0007394 0007400 0007405 0007405 0007412 0007412 0007416 0007417 0007468 0007530 0007544 0007544 0007579 0007679 0008125 0008125 0008127 0008129 0008141 0008143 0008157 0008159 0008173 0008175 0008189 0008190 0008203 0008207 0008216 0008217 0008228 0008228 0008231 0008231 0008234 0008238 0008288 0008292 0008294 0008303 0008305 0008305 0008319 0008319 0008336 0008348 0008400 0008432 0011388 0011389 0011503 0011505 0011631 0011631 0011647 0011647 0011744 0011775 0011823 0011823 0012293 0012293 0012330 0012333 0012337 0012341 0012347 0012347 0012441 0012446 0012540 0012542 0040981 0040981 0042232 0042237 0042508 0042508 0042607 0042610 0042612 0042621 0042623 0042623 0042652 0042655 0042736 0042737 0042752 0042785 0042864 0042864 0042888 0042890 0042994 0042996 0043000 0043001 0043010 0043010 0043014 0043014 0043019 0043019 0043045 0043046 0043052 0043052 0043204 0043205 "
       \o "0043232 0043249 0043263 0043263 0043302 0043309 0043335 0043345 0043392 0043394 0043443 0043443 0043446 0043449 0043452 0043453 0043471 0043471 0043493 0043494 0043561 0043566 0043569 0043570 0043573 0043574 0043587 0043587 0043596 0043596 0043632 0043632 0043644 0043644 0043696 0043696 0043698 0043700 0043703 0043704 0043710 0043711 0043713 0043713 0043741 0043741 0043756 0043757 0043763 0043764 0043766 0043766 0043867 0043871 0043881 0043883 0044005 0044005 0044008 0044008 0044013 0044013 0064286 0064286 0064434 0064450 0065024 0065039 0065043 0065043 0065056 0065071 0065106 0065106 0065109 0065109 0065279 0065279 0065287 0065287 0065294 0065294 0065306 0065306 0065342 0065342 0065344 0065344 0065392 0065392 0065438 0065439 0065507 0065507 0065529 0065531 0066045 0066045 0066272 0066272 0066422 0066426 0067456 0067461 0067463 0067504 0067506 0067514 0068097 0068099 0068101 0068102 0068108 0068111 0068152 0068154 0068159 0068159 0068325 0068326 "
       \o "0068900 0068903 0069291 0069292 0069446 0069456 0069506 0069509 0069633 0069633 0069688 0069702 0069744 0069744 0069747 0069748 0069759 0069761 0069811 0069814 0069817 0069818 0069821 0069821 0069826 0069826 0069837 0069837 0069888 0069890 0069927 0069931 0069933 0069940 0070003 0070003 0070016 0070017 0070070 0070078 0070089 0070092 0070095 0070095 0070191 0070193 0070196 0070196 0070198 0070199 0070206 0070206 0070367 0070367 0070371 0070378 0070400 0070401 0070459 0070460 0070464 0070464 0070502 0070508 0070512 0070516 0070712 0070719 0070722 0070724 0070726 0070726 0070750 0070750 0070835 0070840 0070842 0070842 0070847 0070848 0070850 0070851 0071090 0071093 0071100 0071101 0071103 0071104 0071132 0071133 0071219 0071226 0071229 0071229 0071231 0071232 0071339 0071339 0071341 0071341 0071344 0071349 0071351 0071351 0071453 0071455 0071458 0071461 0071463 0071467 0071727 0071735 0071737 0071738 0071995 0071996 0071998 0071998 0072003 0072003 "
       \o "0072148 0072151 0072154 0072155 0072160 0072160 0072193 0072202 0072243 0072248 0072251 0072254 0072263 0072263 0072273 0072278 0072281 0072283 0072330 0072342 0072344 0072345 0072752 0072758 0072760 0072765 0072767 0072767 0072850 0072871 0072874 0072880 0072882 0072883 0072885 0072886 0073009 0073014 0073018 0073018 0073020 0073021 0073023 0073029 0073031 0073031 0073104 0073105 0073109 0073109 0073111 0073111 0073459 0073460 0078896 0078904 0092912 0092916 0092976 0092982 0092992 0092995 0094031 0094031 0094095 0094111 0094176 0094177 0094179 0094180 0110576 0110579 0110581 0110587 0110589 0110590 0113821 0113822 0113824 0113827 0118528 0118573 0118576 0118598 0119143 0119145 0119155 0119170 0119173 0119179 0119210 0119213 0119362 0119364 0121344 0121398 0121403 0121452 0121461 0121461 0121476 0121476 0121499 0121503 0121505 0121519 0122880 0122886 0122888 0122904 0122907 0122913 0122915 0122916 0122918 0122922 0123184 0123197 0123566 0123566 "
       \o "0123628 0123631 0125136 0125142 0125252 0125259 0127995 0127999 0917505 0917505 0917536 0917631 0917760 0917999",
       2)

\* unicodedata.combining: <<lo, hi, class>> for the classes that are not 0
CombiningRuns ==
  Rows("0000768 0000788 0000230 0000789 0000789 0000232 0000790 0000793 0000220 0000794 0000794 0000232 0000795 0000795 0000216 0000796 0000800 0000220 0000801 0000802 0000202 0000803 0000806 0000220 0000807 0000808 0000202 0000809 0000819 0000220 0000820 0000824 0000001 0000825 0000828 0000220 0000829 0000836 0000230 0000837 0000837 0000240 0000838 0000838 0000230 0000839 0000841 0000220 0000842 0000844 0000230 0000845 0000846 0000220 0000848 0000850 0000230 0000851 0000854 0000220 0000855 0000855 0000230 0000856 0000856 0000232 0000857 0000858 0000220 0000859 0000859 0000230 0000860 0000860 0000233 0000861 0000862 0000234 0000863 0000863 0000233 0000864 0000865 0000234 0000866 0000866 0000233 0000867 0000879 0000230 0001155 0001159 0000230 0001425 0001425 0000220 0001426 0001429 0000230 0001430 0001430 0000220 0001431 0001433 0000230 0001434 0001434 0000222 0001435 0001435 0000220 0001436 0001441 0000230 0001442 0001447 0000220 0001448 0001449 0000230 "
       \o "0001450 0001450 0000220 0001451 0001452 0000230 0001453 0001453 0000222 0001454 0001454 0000228 0001455 0001455 0000230 0001456 0001456 0000010 0001457 0001457 0000011 0001458 0001458 0000012 0001459 0001459 0000013 0001460 0001460 0000014 0001461 0001461 0000015 0001462 0001462 0000016 0001463 0001463 0000017 0001464 0001464 0000018 0001465 0001466 0000019 0001467 0001467 0000020 0001468 0001468 0000021 0001469 0001469 0000022 0001471 0001471 0000023 0001473 0001473 0000024 0001474 0001474 0000025 0001476 0001476 0000230 0001477 0001477 0000220 0001479 0001479 0000018 0001552 0001559 0000230 0001560 0001560 0000030 0001561 0001561 0000031 0001562 0001562 0000032 0001611 0001611 0000027 0001612 0001612 0000028 0001613 0001613 0000029 0001614 0001614 0000030 0001615 0001615 0000031 0001616 0001616 0000032 0001617 0001617 0000033 0001618 0001618 0000034 0001619 0001620 0000230 0001621 0001622 0000220 0001623 0001627 0000230 0001628 0001628 0000220 "
       \o "0001629 0001630 0000230 0001631 0001631 0000220 0001648 0001648 0000035 0001750 0001756 0000230 0001759 0001762 0000230 0001763 0001763 0000220 0001764 0001764 0000230 0001767 0001768 0000230 0001770 0001770 0000220 0001771 0001772 0000230 0001773 0001773 0000220 0001809 0001809 0000036 0001840 0001840 0000230 0001841 0001841 0000220 0001842 0001843 0000230 0001844 0001844 0000220 0001845 0001846 0000230 0001847 0001849 0000220 0001850 0001850 0000230 0001851 0001852 0000220 0001853 0001853 0000230 0001854 0001854 0000220 0001855 0001857 0000230 0001858 0001858 0000220 0001859 0001859 0000230 0001860 0001860 0000220 0001861 0001861 0000230 0001862 0001862 0000220 0001863 0001863 0000230 0001864 0001864 0000220 0001865 0001866 0000230 0002027 0002033 0000230 0002034 0002034 0000220 0002035 0002035 0000230 0002045 0002045 0000220 0002070 0002073 0000230 0002075 0002083 0000230 0002085 0002087 0000230 0002089 0002093 0000230 0002137 0002139 0000220 "
       \o "0002200 0002200 0000230 0002201 0002203 0000220 0002204 0002207 0000230 0002250 0002254 0000230 0002255 0002259 0000220 0002260 0002273 0000230 0002275 0002275 0000220 0002276 0002277 0000230 0002278 0002278 0000220 0002279 0002280 0000230 0002281 0002281 0000220 0002282 0002284 0000230 0002285 0002287 0000220 0002288 0002288 0000027 0002289 0002289 0000028 0002290 0002290 0000029 0002291 0002293 0000230 0002294 0002294 0000220 0002295 0002296 0000230 0002297 0002298 0000220 0002299 0002303 0000230 0002364 0002364 0000007 0002381 0002381 0000009 0002385 0002385 0000230 0002386 0002386 0000220 0002387 0002388 0000230 0002492 0002492 0000007 0002509 0002509 0000009 0002558 0002558 0000230 0002620 0002620 0000007 0002637 0002637 0000009 0002748 0002748 0000007 0002765 0002765 0000009 0002876 0002876 0000007 0002893 0002893 0000009 0003021 0003021 0000009 0003132 0003132 0000007 0003149 0003149 0000009 0003157 0003157 0000084 0003158 0003158 0000091 "
       \o "0003260 0003260 0000007 0003277 0003277 0000009 0003387 0003388 0000009 0003405 0003405 0000009 0003530 0003530 0000009 0003640 0003641 0000103 0003642 0003642 0000009 0003656 0003659 0000107 0003768 0003769 0000118 0003770 0003770 0000009 0003784 0003787 0000122 0003864 0003865 0000220 0003893 0003893 0000220 0003895 0003895 0000220 0003897 0003897 0000216 0003953 0003953 0000129 0003954 0003954 0000130 0003956 0003956 0000132 0003962 0003965 0000130 0003968 0003968 0000130 0003970 0003971 0000230 0003972 0003972 0000009 0003974 0003975 0000230 0004038 0004038 0000220 0004151 0004151 0000007 0004153 0004154 0000009 0004237 0004237 0000220 0004957 0004959 0000230 0005908 0005909 0000009 0005940 0005940 0000009 0006098 0006098 0000009 0006109 0006109 0000230 0006313 0006313 0000228 0006457 0006457 0000222 0006458 0006458 0000230 0006459 0006459 0000220 0006679 0006679 0000230 0006680 0006680 0000220 0006752 0006752 0000009 0006773 0006780 0000230 "
       \o "0006783 0006783 0000220 0006832 0006836 0000230 0006837 0006842 0000220 0006843 0006844 0000230 0006845 0006845 0000220 0006847 0006848 0000220 0006849 0006850 0000230 0006851 0006852 0000220 0006853 0006857 0000230 0006858 0006858 0000220 0006859 0006862 0000230 0006964 0006964 0000007 0006980 0006980 0000009 0007019 0007019 0000230 0007020 0007020 0000220 0007021 0007027 0000230 0007082 0007083 0000009 0007142 0007142 0000007 0007154 0007155 0000009 0007223 0007223 0000007 0007376 0007378 0000230 0007380 0007380 0000001 0007381 0007385 0000220 0007386 0007387 0000230 0007388 0007391 0000220 0007392 0007392 0000230 0007394 0007400 0000001 0007405 0007405 0000220 0007412 0007412 0000230 0007416 0007417 0000230 0007616 0007617 0000230 0007618 0007618 0000220 0007619 0007625 0000230 0007626 0007626 0000220 0007627 0007628 0000230 0007629 0007629 0000234 0007630 0007630 0000214 0007631 0007631 0000220 0007632 0007632 0000202 0007633 0007669 0000230 "
       \o "0007670 0007670 0000232 0007671 0007672 0000228 0007673 0007673 0000220 0007674 0007674 0000218 0007675 0007675 0000230 0007676 0007676 0000233 0007677 0007677 0000220 0007678 0007678 0000230 0007679 0007679 0000220 0008400 0008401 0000230 0008402 0008403 0000001 0008404 0008407 0000230 0008408 0008410 0000001 0008411 0008412 0000230 0008417 0008417 0000230 0008421 0008422 0000001 0008423 0008423 0000230 0008424 0008424 0000220 0008425 0008425 0000230 0008426 0008427 0000001 0008428 0008431 0000220 0008432 0008432 0000230 0011503 0011505 0000230 0011647 0011647 0000009 0011744 0011775 0000230 0012330 0012330 0000218 0012331 0012331 0000228 0012332 0012332 0000232 0012333 0012333 0000222 0012334 0012335 0000224 0012441 0012442 0000008 0042607 0042607 0000230 0042612 0042621 0000230 0042654 0042655 0000230 0042736 0042737 0000230 0043014 0043014 0000009 0043052 0043052 0000009 0043204 0043204 0000009 0043232 0043249 0000230 0043307 0043309 0000220 "
       \o "0043347 0043347 0000009 0043443 0043443 0000007 0043456 0043456 0000009 0043696 0043696 0000230 0043698 0043699 0000230 0043700 0043700 0000220 0043703 0043704 0000230 0043710 0043711 0000230 0043713 0043713 0000230 0043766 0043766 0000009 0044013 0044013 0000009 0064286 0064286 0000026 0065056 0065062 0000230 0065063 0065069 0000220 0065070 0065071 0000230 0066045 0066045 0000220 0066272 0066272 0000220 0066422 0066426 0000230 0068109 0068109 0000220 0068111 0068111 0000230 0068152 0068152 0000230 0068153 0068153 0000001 0068154 0068154 0000220 0068159 0068159 0000009 0068325 0068325 0000230 0068326 0068326 0000220 0068900 0068903 0000230 0069291 0069292 0000230 0069446 0069447 0000220 0069448 0069450 0000230 0069451 0069451 0000220 0069452 0069452 0000230 0069453 0069456 0000220 0069506 0069506 0000230 0069507 0069507 0000220 0069508 0069508 0000230 0069509 0069509 0000220 0069702 0069702 0000009 0069744 0069744 0000009 0069759 0069759 0000009 "
       \o "0069817 0069817 0000009 0069818 0069818 0000007 0069888 0069890 0000230 0069939 0069940 0000009 0070003 0070003 0000007 0070080 0070080 0000009 0070090 0070090 0000007 0070197 0070197 0000009 0070198 0070198 0000007 0070377 0070377 0000007 0070378 0070378 0000009 0070459 0070460 0000007 0070477 0070477 0000009 0070502 0070508 0000230 0070512 0070516 0000230 0070722 0070722 0000009 0070726 0070726 0000007 0070750 0070750 0000230 0070850 0070850 0000009 0070851 0070851 0000007 0071103 0071103 0000009 0071104 0071104 0000007 0071231 0071231 0000009 0071350 0071350 0000009 0071351 0071351 0000007 0071467 0071467 0000009 0071737 0071737 0000009 0071738 0071738 0000007 0071997 0071998 0000009 0072003 0072003 0000007 0072160 0072160 0000009 0072244 0072244 0000009 0072263 0072263 0000009 0072345 0072345 0000009 0072767 0072767 0000009 0073026 0073026 0000007 0073028 0073029 0000009 0073111 0073111 0000009 0092912 0092916 0000001 0092976 0092982 0000230 "
       \o "0094192 0094193 0000006 0113822 0113822 0000001 0119141 0119142 0000216 0119143 0119145 0000001 0119149 0119149 0000226 0119150 0119154 0000216 0119163 0119170 0000220 0119173 0119177 0000230 0119178 0119179 0000220 0119210 0119213 0000230 0119362 0119364 0000230 0122880 0122886 0000230 0122888 0122904 0000230 0122907 0122913 0000230 0122915 0122916 0000230 0122918 0122922 0000230 0123184 0123190 0000230 0123566 0123566 0000230 0123628 0123631 0000230 0125136 0125142 0000220 0125252 0125257 0000230 0125258 0125258 0000007",
       3)

\* The characters of the decompositions, one decomposition after the other
DecompChars ==
  Rows("0000032 0000032 0000776 0000097 0000032 0000772 0000050 0000032 0000769 0000956 0000032 0000807 0000049 0000111 0000049 0008260 0000052 0000049 0008260 0000050 0000051 0008260 0000052 0000065 0000768 0000065 0000776 0000065 0000778 0000067 0000807 0000069 0000768 0000069 0000776 0000073 0000768 0000073 0000776 0000078 0000771 0000079 0000768 0000079 0000776 0000085 0000768 0000085 0000776 0000089 0000769 0000097 0000768 0000097 0000776 0000097 0000778 0000099 0000807 0000101 0000768 0000101 0000776 0000105 0000768 0000105 0000776 0000110 0000771 0000111 0000768 0000111 0000776 0000117 0000768 0000117 0000776 0000121 0000769 0000121 0000776 0000065 0000772 0000097 0000772 0000065 0000774 0000097 0000774 0000065 0000808 0000097 0000808 0000067 0000769 0000099 0000769 0000067 0000770 0000099 0000770 0000067 0000775 0000099 0000775 0000067 0000780 0000099 0000780 0000068 0000780 0000100 0000780 0000069 0000772 0000101 0000772 0000069 0000774 0000101 "
       \o "0000774 0000069 0000775 0000101 0000775 0000069 0000808 0000101 0000808 0000069 0000780 0000101 0000780 0000071 0000770 0000103 0000770 0000071 0000774 0000103 0000774 0000071 0000775 0000103 0000775 0000071 0000807 0000103 0000807 0000072 0000770 0000104 0000770 0000073 0000771 0000105 0000771 0000073 0000772 0000105 0000772 0000073 0000774 0000105 0000774 0000073 0000808 0000105 0000808 0000073 0000775 0000073 0000074 0000105 0000106 0000074 0000770 0000106 0000770 0000075 0000807 0000107 0000807 0000076 0000769 0000108 0000769 0000076 0000807 0000108 0000807 0000076 0000780 0000108 0000780 0000076 0000183 0000108 0000183 0000078 0000769 0000110 0000769 0000078 0000807 0000110 0000807 0000078 0000780 0000110 0000780 0000700 0000110 0000079 0000772 0000111 0000772 0000079 0000774 0000111 0000774 0000079 0000779 0000111 0000779 0000082 0000769 0000114 0000769 0000082 0000807 0000114 0000807 0000082 0000780 0000114 0000780 0000083 0000769 0000115 "
       \o "0000769 0000083 0000770 0000115 0000770 0000083 0000807 0000115 0000807 0000083 0000780 0000115 0000780 0000084 0000807 0000116 0000807 0000084 0000780 0000116 0000780 0000085 0000771 0000117 0000771 0000085 0000772 0000117 0000772 0000085 0000774 0000117 0000774 0000085 0000778 0000117 0000778 0000085 0000779 0000117 0000779 0000085 0000808 0000117 0000808 0000087 0000770 0000119 0000770 0000089 0000770 0000121 0000770 0000089 0000776 0000090 0000769 0000122 0000769 0000090 0000775 0000122 0000775 0000090 0000780 0000122 0000780 0000115 0000079 0000795 0000111 0000795 0000085 0000795 0000117 0000795 0000068 0000090 0000780 0000068 0000122 0000780 0000100 0000122 0000780 0000076 0000074 0000076 0000106 0000108 0000106 0000078 0000074 0000078 0000106 0000110 0000106 0000065 0000780 0000097 0000780 0000073 0000780 0000105 0000780 0000079 0000780 0000111 0000780 0000085 0000780 0000117 0000780 0000085 0000776 0000772 0000117 0000776 0000772 0000085 "
       \o "0000776 0000769 0000117 0000776 0000769 0000085 0000776 0000780 0000117 0000776 0000780 0000085 0000776 0000768 0000117 0000776 0000768 0000065 0000776 0000772 0000097 0000776 0000772 0000065 0000775 0000772 0000097 0000775 0000772 0000198 0000772 0000230 0000772 0000071 0000780 0000103 0000780 0000075 0000780 0000107 0000780 0000079 0000808 0000111 0000808 0000079 0000808 0000772 0000111 0000808 0000772 0000439 0000780 0000658 0000780 0000106 0000780 0000068 0000090 0000068 0000122 0000100 0000122 0000071 0000769 0000103 0000769 0000078 0000768 0000110 0000768 0000065 0000778 0000769 0000097 0000778 0000769 0000198 0000769 0000230 0000769 0000216 0000769 0000248 0000769 0000065 0000783 0000097 0000783 0000065 0000785 0000097 0000785 0000069 0000783 0000101 0000783 0000069 0000785 0000101 0000785 0000073 0000783 0000105 0000783 0000073 0000785 0000105 0000785 0000079 0000783 0000111 0000783 0000079 0000785 0000111 0000785 0000082 0000783 0000114 "
       \o "0000783 0000082 0000785 0000114 0000785 0000085 0000783 0000117 0000783 0000085 0000785 0000117 0000785 0000083 0000806 0000115 0000806 0000084 0000806 0000116 0000806 0000072 0000780 0000104 0000780 0000065 0000775 0000097 0000775 0000069 0000807 0000101 0000807 0000079 0000776 0000772 0000111 0000776 0000772 0000079 0000771 0000772 0000111 0000771 0000772 0000079 0000775 0000111 0000775 0000079 0000775 0000772 0000111 0000775 0000772 0000089 0000772 0000121 0000772 0000104 0000614 0000106 0000114 0000633 0000635 0000641 0000119 0000121 0000032 0000774 0000032 0000778 0000032 0000808 0000032 0000771 0000032 0000779 0000611 0000108 0000115 0000120 0000661 0000768 0000787 0000776 0000769 0000697 0000032 0000837 0000059 0000032 0000769 0000032 0000776 0000769 0000913 0000769 0000183 0000917 0000769 0000919 0000769 0000921 0000769 0000927 0000769 0000933 0000769 0000937 0000769 0000953 0000776 0000769 0000921 0000776 0000933 0000776 0000945 0000769 "
       \o "0000949 0000769 0000951 0000769 0000953 0000769 0000965 0000776 0000769 0000953 0000776 0000965 0000776 0000959 0000769 0000965 0000769 0000969 0000769 0000946 0000952 0000933 0000933 0000769 0000933 0000776 0000966 0000960 0000954 0000961 0000920 0000949 0000931 0001045 0000768 0001045 0000776 0001043 0000769 0001030 0000776 0001050 0000769 0001048 0000768 0001059 0000774 0001048 0000774 0001080 0000774 0001077 0000768 0001077 0000776 0001075 0000769 0001110 0000776 0001082 0000769 0001080 0000768 0001091 0000774 0001140 0000783 0001141 0000783 0001046 0000774 0001078 0000774 0001040 0000774 0001072 0000774 0001040 0000776 0001072 0000776 0001045 0000774 0001077 0000774 0001240 0000776 0001241 0000776 0001046 0000776 0001078 0000776 0001047 0000776 0001079 0000776 0001048 0000772 0001080 0000772 0001048 0000776 0001080 0000776 0001054 0000776 0001086 0000776 0001256 0000776 0001257 0000776 0001069 0000776 0001101 0000776 0001059 0000772 0001091 "
       \o "0000772 0001059 0000776 0001091 0000776 0001059 0000779 0001091 0000779 0001063 0000776 0001095 0000776 0001067 0000776 0001099 0000776 0001381 0001410 0001575 0001619 0001608 0001620 0001575 0001621 0001610 0001620 0001575 0001652 0001608 0001652 0001735 0001652 0001610 0001652 0001749 0001620 0001729 0001620 0001746 0001620 0002344 0002364 0002352 0002364 0002355 0002364 0002325 0002364 0002326 0002364 0002327 0002364 0002332 0002364 0002337 0002364 0002338 0002364 0002347 0002364 0002351 0002364 0002503 0002494 0002503 0002519 0002465 0002492 0002466 0002492 0002479 0002492 0002610 0002620 0002616 0002620 0002582 0002620 0002583 0002620 0002588 0002620 0002603 0002620 0002887 0002902 0002887 0002878 0002887 0002903 0002849 0002876 0002850 0002876 0002962 0003031 0003014 0003006 0003015 0003006 0003014 0003031 0003142 0003158 0003263 0003285 0003270 0003285 0003270 0003266 0003270 0003266 0003285 0003398 0003390 0003399 0003390 0003398 0003415 "
       \o "0003545 0003530 0003545 0003535 0003545 0003535 0003530 0003545 0003551 0003661 0003634 0003789 0003762 0003755 0003737 0003755 0003745 0003851 0003906 0004023 0003916 0004023 0003921 0004023 0003926 0004023 0003931 0004023 0003904 0004021 0003953 0003954 0003953 0003956 0004018 0003968 0004018 0003953 0003968 0004019 0003968 0004019 0003953 0003968 0003953 0003968 0003986 0004023 0003996 0004023 0004001 0004023 0004006 0004023 0004011 0004023 0003984 0004021 0004133 0004142 0004316 0006917 0006965 0006919 0006965 0006921 0006965 0006923 0006965 0006925 0006965 0006929 0006965 0006970 0006965 0006972 0006965 0006974 0006965 0006975 0006965 0006978 0006965 0000065 0000198 0000066 0000068 0000398 0000071 0000079 0000546 0000080 0000082 0000084 0000087 0000097 0000592 0007426 0000098 0000100 0000601 0000603 0000103 0000107 0000109 0000331 0000111 0000596 0007446 0000112 0000116 0007453 0000623 0000118 0007461 0000946 0000966 0000105 0000114 0000117 "
       \o "0000946 0000961 0000966 0001085 0000594 0000099 0000597 0000240 0000604 0000102 0000607 0000609 0000613 0000616 0007547 0000669 0000621 0007557 0000671 0000625 0000624 0000626 0000632 0000642 0000427 0000649 0007452 0000651 0000122 0000656 0000952 0000065 0000805 0000097 0000805 0000066 0000775 0000098 0000775 0000066 0000803 0000098 0000803 0000066 0000817 0000098 0000817 0000067 0000807 0000769 0000099 0000807 0000769 0000068 0000775 0000100 0000775 0000068 0000803 0000100 0000803 0000068 0000817 0000100 0000817 0000068 0000807 0000100 0000807 0000068 0000813 0000100 0000813 0000069 0000772 0000768 0000101 0000772 0000768 0000069 0000772 0000769 0000101 0000772 0000769 0000069 0000813 0000101 0000813 0000069 0000816 0000101 0000816 0000069 0000807 0000774 0000101 0000807 0000774 0000070 0000775 0000102 0000775 0000071 0000772 0000103 0000772 0000072 0000775 0000104 0000775 0000072 0000803 0000104 0000803 0000072 0000776 0000104 0000776 0000072 "
       \o "0000807 0000104 0000807 0000072 0000814 0000104 0000814 0000073 0000816 0000105 0000816 0000073 0000776 0000769 0000105 0000776 0000769 0000075 0000769 0000107 0000769 0000075 0000803 0000107 0000803 0000075 0000817 0000107 0000817 0000076 0000803 0000108 0000803 0000076 0000803 0000772 0000108 0000803 0000772 0000076 0000817 0000108 0000817 0000076 0000813 0000108 0000813 0000077 0000769 0000109 0000769 0000077 0000775 0000109 0000775 0000077 0000803 0000109 0000803 0000078 0000775 0000110 0000775 0000078 0000803 0000110 0000803 0000078 0000817 0000110 0000817 0000078 0000813 0000110 0000813 0000079 0000771 0000769 0000111 0000771 0000769 0000079 0000771 0000776 0000111 0000771 0000776 0000079 0000772 0000768 0000111 0000772 0000768 0000079 0000772 0000769 0000111 0000772 0000769 0000080 0000769 0000112 0000769 0000080 0000775 0000112 0000775 0000082 0000775 0000114 0000775 0000082 0000803 0000114 0000803 0000082 0000803 0000772 0000114 0000803 "
       \o "0000772 0000082 0000817 0000114 0000817 0000083 0000775 0000115 0000775 0000083 0000803 0000115 0000803 0000083 0000769 0000775 0000115 0000769 0000775 0000083 0000780 0000775 0000115 0000780 0000775 0000083 0000803 0000775 0000115 0000803 0000775 0000084 0000775 0000116 0000775 0000084 0000803 0000116 0000803 0000084 0000817 0000116 0000817 0000084 0000813 0000116 0000813 0000085 0000804 0000117 0000804 0000085 0000816 0000117 0000816 0000085 0000813 0000117 0000813 0000085 0000771 0000769 0000117 0000771 0000769 0000085 0000772 0000776 0000117 0000772 0000776 0000086 0000771 0000118 0000771 0000086 0000803 0000118 0000803 0000087 0000768 0000119 0000768 0000087 0000769 0000119 0000769 0000087 0000776 0000119 0000776 0000087 0000775 0000119 0000775 0000087 0000803 0000119 0000803 0000088 0000775 0000120 0000775 0000088 0000776 0000120 0000776 0000089 0000775 0000121 0000775 0000090 0000770 0000122 0000770 0000090 0000803 0000122 0000803 0000090 "
       \o "0000817 0000122 0000817 0000104 0000817 0000116 0000776 0000119 0000778 0000121 0000778 0000097 0000702 0000115 0000775 0000065 0000803 0000097 0000803 0000065 0000777 0000097 0000777 0000065 0000770 0000769 0000097 0000770 0000769 0000065 0000770 0000768 0000097 0000770 0000768 0000065 0000770 0000777 0000097 0000770 0000777 0000065 0000770 0000771 0000097 0000770 0000771 0000065 0000803 0000770 0000097 0000803 0000770 0000065 0000774 0000769 0000097 0000774 0000769 0000065 0000774 0000768 0000097 0000774 0000768 0000065 0000774 0000777 0000097 0000774 0000777 0000065 0000774 0000771 0000097 0000774 0000771 0000065 0000803 0000774 0000097 0000803 0000774 0000069 0000803 0000101 0000803 0000069 0000777 0000101 0000777 0000069 0000771 0000101 0000771 0000069 0000770 0000769 0000101 0000770 0000769 0000069 0000770 0000768 0000101 0000770 0000768 0000069 0000770 0000777 0000101 0000770 0000777 0000069 0000770 0000771 0000101 0000770 0000771 0000069 "
       \o "0000803 0000770 0000101 0000803 0000770 0000073 0000777 0000105 0000777 0000073 0000803 0000105 0000803 0000079 0000803 0000111 0000803 0000079 0000777 0000111 0000777 0000079 0000770 0000769 0000111 0000770 0000769 0000079 0000770 0000768 0000111 0000770 0000768 0000079 0000770 0000777 0000111 0000770 0000777 0000079 0000770 0000771 0000111 0000770 0000771 0000079 0000803 0000770 0000111 0000803 0000770 0000079 0000795 0000769 0000111 0000795 0000769 0000079 0000795 0000768 0000111 0000795 0000768 0000079 0000795 0000777 0000111 0000795 0000777 0000079 0000795 0000771 0000111 0000795 0000771 0000079 0000795 0000803 0000111 0000795 0000803 0000085 0000803 0000117 0000803 0000085 0000777 0000117 0000777 0000085 0000795 0000769 0000117 0000795 0000769 0000085 0000795 0000768 0000117 0000795 0000768 0000085 0000795 0000777 0000117 0000795 0000777 0000085 0000795 0000771 0000117 0000795 0000771 0000085 0000795 0000803 0000117 0000795 0000803 0000089 "
       \o "0000768 0000121 0000768 0000089 0000803 0000121 0000803 0000089 0000777 0000121 0000777 0000089 0000771 0000121 0000771 0000945 0000787 0000945 0000787 0000768 0000945 0000788 0000768 0000945 0000787 0000769 0000945 0000788 0000769 0000945 0000787 0000834 0000945 0000788 0000834 0000913 0000787 0000913 0000787 0000768 0000913 0000788 0000768 0000913 0000787 0000769 0000913 0000788 0000769 0000913 0000787 0000834 0000913 0000788 0000834 0000949 0000787 0000949 0000787 0000768 0000949 0000788 0000768 0000949 0000787 0000769 0000949 0000788 0000769 0000917 0000787 0000917 0000787 0000768 0000917 0000788 0000768 0000917 0000787 0000769 0000917 0000788 0000769 0000951 0000787 0000951 0000787 0000768 0000951 0000788 0000768 0000951 0000787 0000769 0000951 0000788 0000769 0000951 0000787 0000834 0000951 0000788 0000834 0000919 0000787 0000919 0000787 0000768 0000919 0000788 0000768 0000919 0000787 0000769 0000919 0000788 0000769 0000919 0000787 0000834 "
       \o "0000919 0000788 0000834 0000953 0000787 0000953 0000787 0000768 0000953 0000788 0000768 0000953 0000787 0000769 0000953 0000788 0000769 0000953 0000787 0000834 0000953 0000788 0000834 0000921 0000787 0000921 0000787 0000768 0000921 0000788 0000768 0000921 0000787 0000769 0000921 0000788 0000769 0000921 0000787 0000834 0000921 0000788 0000834 0000959 0000787 0000959 0000787 0000768 0000959 0000788 0000768 0000959 0000787 0000769 0000959 0000788 0000769 0000927 0000787 0000927 0000787 0000768 0000927 0000788 0000768 0000927 0000787 0000769 0000927 0000788 0000769 0000965 0000787 0000965 0000787 0000768 0000965 0000788 0000768 0000965 0000787 0000769 0000965 0000788 0000769 0000965 0000787 0000834 0000965 0000788 0000834 0000933 0000788 0000933 0000788 0000768 0000933 0000788 0000769 0000933 0000788 0000834 0000969 0000787 0000969 0000787 0000768 0000969 0000788 0000768 0000969 0000787 0000769 0000969 0000788 0000769 0000969 0000787 0000834 0000969 "
       \o "0000788 0000834 0000937 0000787 0000937 0000787 0000768 0000937 0000788 0000768 0000937 0000787 0000769 0000937 0000788 0000769 0000937 0000787 0000834 0000937 0000788 0000834 0000945 0000768 0000949 0000768 0000951 0000768 0000953 0000768 0000959 0000768 0000965 0000768 0000969 0000768 0000945 0000787 0000837 0000945 0000788 0000837 0000945 0000787 0000768 0000837 0000945 0000788 0000768 0000837 0000945 0000787 0000769 0000837 0000945 0000788 0000769 0000837 0000945 0000787 0000834 0000837 0000945 0000788 0000834 0000837 0000913 0000787 0000837 0000913 0000788 0000837 0000913 0000787 0000768 0000837 0000913 0000788 0000768 0000837 0000913 0000787 0000769 0000837 0000913 0000788 0000769 0000837 0000913 0000787 0000834 0000837 0000913 0000788 0000834 0000837 0000951 0000787 0000837 0000951 0000788 0000837 0000951 0000787 0000768 0000837 0000951 0000788 0000768 0000837 0000951 0000787 0000769 0000837 0000951 0000788 0000769 0000837 0000951 0000787 "
       \o "0000834 0000837 0000951 0000788 0000834 0000837 0000919 0000787 0000837 0000919 0000788 0000837 0000919 0000787 0000768 0000837 0000919 0000788 0000768 0000837 0000919 0000787 0000769 0000837 0000919 0000788 0000769 0000837 0000919 0000787 0000834 0000837 0000919 0000788 0000834 0000837 0000969 0000787 0000837 0000969 0000788 0000837 0000969 0000787 0000768 0000837 0000969 0000788 0000768 0000837 0000969 0000787 0000769 0000837 0000969 0000788 0000769 0000837 0000969 0000787 0000834 0000837 0000969 0000788 0000834 0000837 0000937 0000787 0000837 0000937 0000788 0000837 0000937 0000787 0000768 0000837 0000937 0000788 0000768 0000837 0000937 0000787 0000769 0000837 0000937 0000788 0000769 0000837 0000937 0000787 0000834 0000837 0000937 0000788 0000834 0000837 0000945 0000774 0000945 0000772 0000945 0000768 0000837 0000945 0000837 0000945 0000769 0000837 0000945 0000834 0000945 0000834 0000837 0000913 0000774 0000913 0000772 0000913 0000768 0000913 "
       \o "0000837 0000032 0000787 0000953 0000032 0000787 0000032 0000834 0000032 0000776 0000834 0000951 0000768 0000837 0000951 0000837 0000951 0000769 0000837 0000951 0000834 0000951 0000834 0000837 0000917 0000768 0000919 0000768 0000919 0000837 0000032 0000787 0000768 0000032 0000787 0000834 0000953 0000774 0000953 0000772 0000953 0000776 0000768 0000953 0000834 0000953 0000776 0000834 0000921 0000774 0000921 0000772 0000921 0000768 0000032 0000788 0000768 0000032 0000788 0000834 0000965 0000774 0000965 0000772 0000965 0000776 0000768 0000961 0000787 0000965 0000834 0000965 0000776 0000834 0000933 0000774 0000933 0000772 0000933 0000768 0000929 0000788 0000032 0000776 0000768 0000096 0000969 0000768 0000837 0000969 0000837 0000969 0000769 0000837 0000969 0000834 0000969 0000834 0000837 0000927 0000768 0000937 0000768 0000937 0000837 0000032 0000769 0000032 0000788 0000032 0000032 0000032 0000032 0000032 0000032 0000032 0000032 0000032 0000032 0000032 "
       \o "0008208 0000032 0000819 0000046 0000046 0000046 0000046 0000046 0000046 0000032 0008242 0008242 0008242 0008242 0008242 0008245 0008245 0008245 0008245 0008245 0000033 0000033 0000032 0000773 0000063 0000063 0000063 0000033 0000033 0000063 0008242 0008242 0008242 0008242 0000032 0000048 0000105 0000052 0000043 0008722 0000061 0000040 0000110 0000048 0000043 0008722 0000061 0000040 0000097 0000101 0000111 0000120 0000601 0000104 0000107 0000112 0000115 0000082 0000115 0000097 0000047 0000099 0000097 0000047 0000115 0000067 0000176 0000067 0000099 0000047 0000111 0000099 0000047 0000117 0000400 0000176 0000070 0000103 0000072 0000072 0000072 0000104 0000295 0000073 0000073 0000076 0000108 0000078 0000078 0000111 0000080 0000082 0000082 0000083 0000077 0000084 0000069 0000076 0000084 0000077 0000090 0000937 0000090 0000075 0000065 0000778 0000066 0000101 0000069 0000077 0000111 0001488 0000105 0000070 0000065 0000088 0000960 0000947 0000915 0000928 "
       \o "0008721 0000068 0000100 0000105 0000049 0008260 0000055 0000049 0008260 0000057 0000049 0008260 0000049 0000048 0000049 0008260 0000051 0000050 0008260 0000051 0000049 0008260 0000053 0000050 0008260 0000053 0000051 0008260 0000053 0000052 0008260 0000053 0000049 0008260 0000054 0000053 0008260 0000054 0000049 0008260 0000056 0000051 0008260 0000056 0000053 0008260 0000056 0000055 0008260 0000056 0000049 0008260 0000073 0000073 0000073 0000073 0000073 0000073 0000073 0000086 0000086 0000086 0000073 0000086 0000073 0000073 0000086 0000073 0000073 0000073 0000073 0000088 0000088 0000088 0000073 0000088 0000073 0000073 0000076 0000067 0000077 0000105 0000105 0000105 0000105 0000105 0000105 0000105 0000118 0000118 0000118 0000105 0000118 0000105 0000105 0000118 0000105 0000105 0000105 0000105 0000120 0000120 0000120 0000105 0000120 0000105 0000105 0000108 0000099 0000109 0000048 0008260 0000051 0008592 0000824 0008594 0000824 0008596 0000824 0008656 "
       \o "0000824 0008660 0000824 0008658 0000824 0008707 0000824 0008712 0000824 0008715 0000824 0008739 0000824 0008741 0000824 0008747 0008747 0008747 0008747 0008747 0008750 0008750 0008750 0008750 0008750 0008764 0000824 0008771 0000824 0008773 0000824 0008776 0000824 0000061 0000824 0008801 0000824 0008781 0000824 0000060 0000824 0000062 0000824 0008804 0000824 0008805 0000824 0008818 0000824 0008819 0000824 0008822 0000824 0008823 0000824 0008826 0000824 0008827 0000824 0008834 0000824 0008835 0000824 0008838 0000824 0008839 0000824 0008866 0000824 0008872 0000824 0008873 0000824 0008875 0000824 0008828 0000824 0008829 0000824 0008849 0000824 0008850 0000824 0008882 0000824 0008883 0000824 0008884 0000824 0008885 0000824 0012296 0000049 0000049 0000048 0000050 0000048 0000040 0000049 0000041 0000040 0000050 0000041 0000040 0000051 0000041 0000040 0000052 0000041 0000040 0000053 0000041 0000040 0000054 0000041 0000040 0000055 0000041 0000040 0000056 "
       \o "0000041 0000040 0000057 0000041 0000040 0000049 0000048 0000041 0000040 0000049 0000049 0000041 0000040 0000049 0000050 0000041 0000040 0000049 0000051 0000041 0000040 0000049 0000052 0000041 0000040 0000049 0000053 0000041 0000040 0000049 0000054 0000041 0000040 0000049 0000055 0000041 0000040 0000049 0000056 0000041 0000040 0000049 0000057 0000041 0000040 0000050 0000048 0000041 0000049 0000046 0000050 0000046 0000051 0000046 0000052 0000046 0000053 0000046 0000054 0000046 0000055 0000046 0000056 0000046 0000057 0000046 0000049 0000048 0000046 0000049 0000049 0000046 0000049 0000050 0000046 0000049 0000051 0000046 0000049 0000052 0000046 0000049 0000053 0000046 0000049 0000054 0000046 0000049 0000055 0000046 0000049 0000056 0000046 0000049 0000057 0000046 0000050 0000048 0000046 0000040 0000097 0000041 0000040 0000098 0000041 0000040 0000099 0000041 0000040 0000100 0000041 0000040 0000101 0000041 0000040 0000102 0000041 0000040 0000103 0000041 "
       \o "0000040 0000104 0000041 0000040 0000105 0000041 0000040 0000106 0000041 0000040 0000107 0000041 0000040 0000108 0000041 0000040 0000109 0000041 0000040 0000110 0000041 0000040 0000111 0000041 0000040 0000112 0000041 0000040 0000113 0000041 0000040 0000114 0000041 0000040 0000115 0000041 0000040 0000116 0000041 0000040 0000117 0000041 0000040 0000118 0000041 0000040 0000119 0000041 0000040 0000120 0000041 0000040 0000121 0000041 0000040 0000122 0000041 0000065 0000097 0000048 0008747 0008747 0008747 0008747 0000058 0000058 0000061 0000061 0000061 0000061 0000061 0000061 0010973 0000824 0000106 0000086 0011617 0027597 0040863 0019968 0020008 0020022 0020031 0020057 0020101 0020108 0020128 0020154 0020799 0020837 0020843 0020866 0020886 0020907 0020960 0020981 0020992 0021147 0021241 0021269 0021274 0021304 0021313 0021340 0021353 0021378 0021430 0021448 0021475 0022231 0022303 0022763 0022786 0022794 0022805 0022823 0022899 0023376 0023424 0023544 "
       \o "0023567 0023586 0023608 0023662 0023665 0024027 0024037 0024049 0024062 0024178 0024186 0024191 0024308 0024318 0024331 0024339 0024400 0024417 0024435 0024515 0025096 0025142 0025163 0025903 0025908 0025991 0026007 0026020 0026041 0026080 0026085 0026352 0026376 0026408 0027424 0027490 0027513 0027571 0027595 0027604 0027611 0027663 0027668 0027700 0028779 0029226 0029238 0029243 0029247 0029255 0029273 0029275 0029356 0029572 0029577 0029916 0029926 0029976 0029983 0029992 0030000 0030091 0030098 0030326 0030333 0030382 0030399 0030446 0030683 0030690 0030707 0031034 0031160 0031166 0031348 0031435 0031481 0031859 0031992 0032566 0032593 0032650 0032701 0032769 0032780 0032786 0032819 0032895 0032905 0033251 0033258 0033267 0033276 0033292 0033307 0033311 0033390 0033394 0033400 0034381 0034411 0034880 0034892 0034915 0035198 0035211 0035282 0035328 0035895 0035910 0035925 0035960 0035997 0036196 0036208 0036275 0036523 0036554 0036763 0036784 "
       \o "0036789 0037009 0037193 0037318 0037324 0037329 0038263 0038272 0038428 0038582 0038585 0038632 0038737 0038750 0038754 0038761 0038859 0038893 0038899 0038913 0039080 0039131 0039135 0039318 0039321 0039340 0039592 0039640 0039647 0039717 0039727 0039730 0039740 0039770 0040165 0040565 0040575 0040613 0040635 0040643 0040653 0040657 0040697 0040701 0040718 0040723 0040736 0040763 0040778 0040786 0040845 0040860 0040864 0000032 0012306 0021313 0021316 0012363 0012441 0012365 0012441 0012367 0012441 0012369 0012441 0012371 0012441 0012373 0012441 0012375 0012441 0012377 0012441 0012379 0012441 0012381 0012441 0012383 0012441 0012385 0012441 0012388 0012441 0012390 0012441 0012392 0012441 0012399 0012441 0012402 0012441 0012405 0012441 0012408 0012441 0012411 0012441 0012358 0012441 0000032 0012441 0012445 0012441 0012424 0012426 0012459 0012441 0012461 0012441 0012463 0012441 0012465 0012441 0012467 0012441 0012469 0012441 0012471 0012441 0012473 "
       \o "0012441 0012475 0012441 0012477 0012441 0012479 0012441 0012481 0012441 0012484 0012441 0012486 0012441 0012488 0012441 0012495 0012441 0012498 0012441 0012501 0012441 0012504 0012441 0012507 0012441 0012454 0012441 0012527 0012441 0012528 0012441 0012529 0012441 0012530 0012441 0012541 0012441 0012467 0012488 0004352 0004522 0004354 0004524 0004355 0004528 0004378 0004358 0004385 0004361 0004449 0004448 0004372 0004551 0004556 0004558 0004563 0004567 0004569 0004380 0004573 0004575 0004381 0004384 0004386 0004391 0004393 0004395 0004402 0004406 0004416 0004423 0004428 0004593 0004439 0004484 0004488 0004497 0004500 0004510 0004513 0019968 0020108 0019977 0022235 0019978 0020013 0019979 0030002 0020057 0019993 0019969 0022825 0022320 0020154 0000040 0004352 0000041 0000040 0004354 0000041 0000040 0004355 0000041 0000040 0004357 0000041 0000040 0004358 0000041 0000040 0004359 0000041 0000040 0004361 0000041 0000040 0004363 0000041 0000040 0004364 "
       \o "0000041 0000040 0004366 0000041 0000040 0004367 0000041 0000040 0004368 0000041 0000040 0004369 0000041 0000040 0004370 0000041 0000040 0004352 0004449 0000041 0000040 0004354 0004449 0000041 0000040 0004355 0004449 0000041 0000040 0004357 0004449 0000041 0000040 0004358 0004449 0000041 0000040 0004359 0004449 0000041 0000040 0004361 0004449 0000041 0000040 0004363 0004449 0000041 0000040 0004364 0004449 0000041 0000040 0004366 0004449 0000041 0000040 0004367 0004449 0000041 0000040 0004368 0004449 0000041 0000040 0004369 0004449 0000041 0000040 0004370 0004449 0000041 0000040 0004364 0004462 0000041 0000040 0004363 0004457 0004364 0004453 0004523 0000041 0000040 0004363 0004457 0004370 0004462 0000041 0000040 0019968 0000041 0000040 0020108 0000041 0000040 0019977 0000041 0000040 0022235 0000041 0000040 0020116 0000041 0000040 0020845 0000041 0000040 0019971 0000041 0000040 0020843 0000041 0000040 0020061 0000041 0000040 0021313 0000041 0000040 "
       \o "0026376 0000041 0000040 0028779 0000041 0000040 0027700 0000041 0000040 0026408 0000041 0000040 0037329 0000041 0000040 0022303 0000041 0000040 0026085 0000041 0000040 0026666 0000041 0000040 0026377 0000041 0000040 0031038 0000041 0000040 0021517 0000041 0000040 0029305 0000041 0000040 0036001 0000041 0000040 0031069 0000041 0000040 0021172 0000041 0000040 0020195 0000041 0000040 0021628 0000041 0000040 0023398 0000041 0000040 0030435 0000041 0000040 0020225 0000041 0000040 0036039 0000041 0000040 0021332 0000041 0000040 0031085 0000041 0000040 0020241 0000041 0000040 0033258 0000041 0000040 0033267 0000041 0021839 0024188 0025991 0031631 0000080 0000084 0000069 0000050 0000049 0000051 0000048 0004352 0004354 0004357 0004361 0004363 0004366 0004352 0004449 0004354 0004449 0004355 0004449 0004357 0004449 0004358 0004449 0004359 0004449 0004361 0004449 0004363 0004449 0004364 0004449 0004366 0004449 0004367 0004449 0004368 0004449 0004369 0004449 "
       \o "0004370 0004449 0004366 0004449 0004535 0004352 0004457 0004364 0004462 0004363 0004468 0004363 0004462 0019968 0020108 0019977 0022235 0020116 0020845 0019971 0020843 0020061 0021313 0026376 0028779 0027700 0026408 0037329 0022303 0026085 0026666 0026377 0031038 0021517 0029305 0036001 0031069 0021172 0031192 0030007 0022899 0036969 0020778 0021360 0027880 0038917 0020241 0020889 0027491 0019978 0020013 0019979 0024038 0021491 0021307 0023447 0023398 0030435 0020225 0036039 0021332 0022812 0000051 0000054 0000052 0000048 0000053 0000048 0000049 0026376 0000050 0026376 0000051 0026376 0000052 0026376 0000053 0026376 0000054 0026376 0000055 0026376 0000056 0026376 0000057 0026376 0000049 0000048 0026376 0000049 0000049 0026376 0000049 0000050 0026376 0000072 0000103 0000101 0000114 0000103 0000101 0000086 0000076 0000084 0000068 0012450 0012452 0012454 0012456 0012458 0012461 0012463 0012465 0012467 0012469 0012471 0012473 0012475 0012477 0012479 "
       \o "0012481 0012484 0012486 0012488 0012490 0012498 0012501 0012504 0012507 0012510 0012516 0012518 0012520 0012527 0020196 0021644 0012450 0012495 0012442 0012540 0012488 0012450 0012523 0012501 0012449 0012450 0012531 0012504 0012442 0012450 0012450 0012540 0012523 0012452 0012491 0012531 0012463 0012441 0012452 0012531 0012481 0012454 0012457 0012531 0012456 0012473 0012463 0012540 0012488 0012441 0012456 0012540 0012459 0012540 0012458 0012531 0012473 0012458 0012540 0012512 0012459 0012452 0012522 0012459 0012521 0012483 0012488 0012459 0012525 0012522 0012540 0012459 0012441 0012525 0012531 0012459 0012441 0012531 0012510 0012461 0012441 0012459 0012441 0012461 0012441 0012491 0012540 0012461 0012517 0012522 0012540 0012461 0012441 0012523 0012479 0012441 0012540 0012461 0012525 0012461 0012525 0012463 0012441 0012521 0012512 0012461 0012525 0012513 0012540 0012488 0012523 0012461 0012525 0012527 0012483 0012488 0012463 0012441 0012521 0012512 "
       \o "0012463 0012441 0012521 0012512 0012488 0012531 0012463 0012523 0012475 0012441 0012452 0012525 0012463 0012525 0012540 0012493 0012465 0012540 0012473 0012467 0012523 0012490 0012467 0012540 0012507 0012442 0012469 0012452 0012463 0012523 0012469 0012531 0012481 0012540 0012512 0012471 0012522 0012531 0012463 0012441 0012475 0012531 0012481 0012475 0012531 0012488 0012479 0012441 0012540 0012473 0012486 0012441 0012471 0012488 0012441 0012523 0012488 0012531 0012490 0012494 0012494 0012483 0012488 0012495 0012452 0012484 0012495 0012442 0012540 0012475 0012531 0012488 0012495 0012442 0012540 0012484 0012495 0012441 0012540 0012524 0012523 0012498 0012442 0012450 0012473 0012488 0012523 0012498 0012442 0012463 0012523 0012498 0012442 0012467 0012498 0012441 0012523 0012501 0012449 0012521 0012483 0012488 0012441 0012501 0012451 0012540 0012488 0012501 0012441 0012483 0012471 0012455 0012523 0012501 0012521 0012531 0012504 0012463 0012479 0012540 "
       \o "0012523 0012504 0012442 0012477 0012504 0012442 0012491 0012498 0012504 0012523 0012484 0012504 0012442 0012531 0012473 0012504 0012442 0012540 0012471 0012441 0012504 0012441 0012540 0012479 0012507 0012442 0012452 0012531 0012488 0012507 0012441 0012523 0012488 0012507 0012531 0012507 0012442 0012531 0012488 0012441 0012507 0012540 0012523 0012507 0012540 0012531 0012510 0012452 0012463 0012525 0012510 0012452 0012523 0012510 0012483 0012495 0012510 0012523 0012463 0012510 0012531 0012471 0012519 0012531 0012511 0012463 0012525 0012531 0012511 0012522 0012511 0012522 0012495 0012441 0012540 0012523 0012513 0012459 0012441 0012513 0012459 0012441 0012488 0012531 0012513 0012540 0012488 0012523 0012516 0012540 0012488 0012441 0012516 0012540 0012523 0012518 0012450 0012531 0012522 0012483 0012488 0012523 0012522 0012521 0012523 0012498 0012442 0012540 0012523 0012540 0012501 0012441 0012523 0012524 0012512 0012524 0012531 0012488 0012465 0012441 "
       \o "0012531 0012527 0012483 0012488 0000048 0028857 0000049 0028857 0000050 0028857 0000051 0028857 0000052 0028857 0000053 0028857 0000054 0028857 0000055 0028857 0000056 0028857 0000057 0028857 0000049 0000048 0028857 0000049 0000049 0028857 0000049 0000050 0028857 0000049 0000051 0028857 0000049 0000052 0028857 0000049 0000053 0028857 0000049 0000054 0028857 0000049 0000055 0028857 0000049 0000056 0028857 0000049 0000057 0028857 0000050 0000048 0028857 0000050 0000049 0028857 0000050 0000050 0028857 0000050 0000051 0028857 0000050 0000052 0028857 0000104 0000080 0000097 0000100 0000097 0000065 0000085 0000098 0000097 0000114 0000111 0000086 0000112 0000099 0000100 0000109 0000100 0000109 0000050 0000073 0000085 0024179 0025104 0026157 0021644 0022823 0027491 0026126 0027835 0026666 0024335 0020250 0031038 0000112 0000065 0000110 0000065 0000956 0000065 0000109 0000065 0000107 0000065 0000075 0000066 0000077 0000066 0000071 0000066 0000099 0000097 "
       \o "0000108 0000107 0000099 0000097 0000108 0000112 0000070 0000110 0000070 0000956 0000070 0000956 0000103 0000109 0000103 0000107 0000103 0000072 0000122 0000107 0000072 0000122 0000077 0000072 0000122 0000071 0000072 0000122 0000084 0000072 0000122 0000956 0000108 0000109 0000108 0000100 0000108 0000107 0000108 0000102 0000109 0000110 0000109 0000956 0000109 0000109 0000109 0000099 0000109 0000107 0000109 0000109 0000109 0000050 0000099 0000109 0000050 0000109 0000050 0000107 0000109 0000050 0000109 0000109 0000051 0000099 0000109 0000051 0000109 0000051 0000107 0000109 0000051 0000109 0008725 0000115 0000109 0008725 0000115 0000050 0000080 0000097 0000107 0000080 0000097 0000077 0000080 0000097 0000071 0000080 0000097 0000114 0000097 0000100 0000114 0000097 0000100 0008725 0000115 0000114 0000097 0000100 0008725 0000115 0000050 0000112 0000115 0000110 0000115 0000956 0000115 0000109 0000115 0000112 0000086 0000110 0000086 0000956 0000086 0000109 "
       \o "0000086 0000107 0000086 0000077 0000086 0000112 0000087 0000110 0000087 0000956 0000087 0000109 0000087 0000107 0000087 0000077 0000087 0000107 0000937 0000077 0000937 0000097 0000046 0000109 0000046 0000066 0000113 0000099 0000099 0000067 0008725 0000107 0000103 0000067 0000111 0000046 0000100 0000066 0000071 0000121 0000104 0000097 0000072 0000080 0000105 0000110 0000075 0000075 0000075 0000077 0000107 0000116 0000108 0000109 0000108 0000111 0000103 0000108 0000120 0000109 0000098 0000109 0000105 0000108 0000109 0000111 0000108 0000080 0000072 0000112 0000046 0000109 0000046 0000080 0000080 0000077 0000080 0000082 0000115 0000114 0000083 0000118 0000087 0000098 0000086 0008725 0000109 0000065 0008725 0000109 0000049 0026085 0000050 0026085 0000051 0026085 0000052 0026085 0000053 0026085 0000054 0026085 0000055 0026085 0000056 0026085 0000057 0026085 0000049 0000048 0026085 0000049 0000049 0026085 0000049 0000050 0026085 0000049 0000051 0026085 "
       \o "0000049 0000052 0026085 0000049 0000053 0026085 0000049 0000054 0026085 0000049 0000055 0026085 0000049 0000056 0026085 0000049 0000057 0026085 0000050 0000048 0026085 0000050 0000049 0026085 0000050 0000050 0026085 0000050 0000051 0026085 0000050 0000052 0026085 0000050 0000053 0026085 0000050 0000054 0026085 0000050 0000055 0026085 0000050 0000056 0026085 0000050 0000057 0026085 0000051 0000048 0026085 0000051 0000049 0026085 0000103 0000097 0000108 0001098 0001100 0042863 0000067 0000070 0000081 0000294 0000339 0042791 0043831 0000619 0043858 0000653 0035912 0026356 0036554 0036040 0028369 0020018 0021477 0040860 0040860 0022865 0037329 0021895 0022856 0025078 0030313 0032645 0034367 0034746 0035064 0037007 0027138 0027931 0028889 0029662 0033853 0037226 0039409 0020098 0021365 0027396 0029211 0034349 0040478 0023888 0028651 0034253 0035172 0025289 0033240 0034847 0024266 0026391 0028010 0029436 0037070 0020358 0020919 0021214 0025796 0027347 "
       \o "0029200 0030439 0032769 0034310 0034396 0036335 0038706 0039791 0040442 0030860 0031103 0032160 0033737 0037636 0040575 0035542 0022751 0024324 0031840 0032894 0029282 0030922 0036034 0038647 0022744 0023650 0027155 0028122 0028431 0032047 0032311 0038475 0021202 0032907 0020956 0020940 0031260 0032190 0033777 0038517 0035712 0025295 0027138 0035582 0020025 0023527 0024594 0029575 0030064 0021271 0030971 0020415 0024489 0019981 0027852 0025976 0032034 0021443 0022622 0030465 0033865 0035498 0027578 0036784 0027784 0025342 0033509 0025504 0030053 0020142 0020841 0020937 0026753 0031975 0033391 0035538 0037327 0021237 0021570 0022899 0024300 0026053 0028670 0031018 0038317 0039530 0040599 0040654 0021147 0026310 0027511 0036706 0024180 0024976 0025088 0025754 0028451 0029001 0029833 0031178 0032244 0032879 0036646 0034030 0036899 0037706 0021015 0021155 0021693 0028872 0035010 0035498 0024265 0024565 0025467 0027566 0031806 0029557 0020196 0022265 "
       \o "0023527 0023994 0024604 0029618 0029801 0032666 0032838 0037428 0038646 0038728 0038936 0020363 0031150 0037300 0038584 0024801 0020102 0020698 0023534 0023615 0026009 0027138 0029134 0030274 0034044 0036988 0040845 0026248 0038446 0021129 0026491 0026611 0027969 0028316 0029705 0030041 0030827 0032016 0039006 0020845 0025134 0038520 0020523 0023833 0028138 0036650 0024459 0024900 0026647 0029575 0038534 0021033 0021519 0023653 0026131 0026446 0026792 0027877 0029702 0030178 0032633 0035023 0035041 0037324 0038626 0021311 0028346 0021533 0029136 0029848 0034298 0038563 0040023 0040607 0026519 0028107 0033256 0031435 0031520 0031890 0029376 0028825 0035672 0020160 0033590 0021050 0020999 0024230 0025299 0031958 0023429 0027934 0026292 0036667 0034892 0038477 0035211 0024275 0020800 0021952 0022618 0026228 0020958 0029482 0030410 0031036 0031070 0031077 0031119 0038742 0031934 0032701 0034322 0035576 0036920 0037117 0039151 0039164 0039208 0040372 "
       \o "0037086 0038583 0020398 0020711 0020813 0021193 0021220 0021329 0021917 0022022 0022120 0022592 0022696 0023652 0023662 0024724 0024936 0024974 0025074 0025935 0026082 0026257 0026757 0028023 0028186 0028450 0029038 0029227 0029730 0030865 0031038 0031049 0031048 0031056 0031062 0031069 0031117 0031296 0031361 0031680 0032244 0032265 0032321 0032626 0032773 0033261 0033401 0033401 0033879 0035088 0035222 0035585 0035641 0036051 0036104 0036790 0036920 0038627 0038911 0038971 0024693 0148206 0033304 0020006 0020917 0020840 0020352 0020805 0020864 0021191 0021242 0021917 0021845 0021913 0021986 0022618 0022707 0022852 0022868 0023138 0023336 0024274 0024281 0024425 0024493 0024792 0024910 0024840 0024974 0024928 0025074 0025140 0025540 0025628 0025682 0025942 0026228 0026391 0026395 0026454 0027513 0027578 0027969 0028379 0028363 0028450 0028702 0029038 0030631 0029237 0029359 0029482 0029809 0029958 0030011 0030237 0030239 0030410 0030427 0030452 "
       \o "0030538 0030528 0030924 0031409 0031680 0031867 0032091 0032244 0032574 0032773 0033618 0033775 0034681 0035137 0035206 0035222 0035519 0035576 0035531 0035585 0035582 0035565 0035641 0035722 0036104 0036664 0036978 0037273 0037494 0038524 0038627 0038742 0038875 0038911 0038923 0038971 0039698 0040860 0141386 0141380 0144341 0015261 0016408 0016441 0152137 0154832 0163539 0040771 0040846 0000102 0000102 0000102 0000105 0000102 0000108 0000102 0000102 0000105 0000102 0000102 0000108 0000115 0000116 0000115 0000116 0001396 0001398 0001396 0001381 0001396 0001387 0001406 0001398 0001396 0001389 0001497 0001460 0001522 0001463 0001506 0001488 0001491 0001499 0001512 0001514 0000043 0001513 0001473 0001513 0001468 0001473 0001488 0001463 0001488 0001468 0001489 0001468 0001490 0001468 0001491 0001468 0001492 0001468 0001493 0001468 0001494 0001468 0001496 0001468 0001497 0001468 0001498 0001468 0001499 0001468 0001500 0001468 0001502 0001468 0001504 "
       \o "0001468 0001505 0001468 0001507 0001468 0001508 0001468 0001510 0001468 0001511 0001468 0001512 0001468 0001513 0001468 0001514 0001468 0001493 0001465 0001489 0001471 0001499 0001471 0001508 0001471 0001488 0001500 0001649 0001649 0001659 0001659 0001659 0001659 0001662 0001662 0001662 0001662 0001664 0001664 0001664 0001664 0001658 0001658 0001658 0001658 0001663 0001663 0001663 0001663 0001657 0001657 0001657 0001657 0001700 0001700 0001700 0001700 0001702 0001702 0001702 0001702 0001668 0001668 0001668 0001668 0001667 0001667 0001667 0001667 0001670 0001670 0001670 0001670 0001671 0001671 0001671 0001677 0001677 0001676 0001676 0001678 0001678 0001672 0001672 0001688 0001688 0001681 0001681 0001705 0001705 0001705 0001705 0001711 0001711 0001711 0001711 0001715 0001715 0001715 0001715 0001713 0001713 0001713 0001713 0001722 0001722 0001723 0001723 0001723 0001749 0001620 0001749 0001620 0001729 0001729 0001729 0001729 0001726 0001726 0001726 "
       \o "0001726 0001746 0001746 0001746 0001620 0001746 0001620 0001709 0001709 0001709 0001709 0001735 0001735 0001734 0001734 0001736 0001736 0001735 0001652 0001739 0001739 0001733 0001733 0001737 0001737 0001744 0001744 0001744 0001744 0001609 0001609 0001610 0001620 0001575 0001610 0001620 0001575 0001610 0001620 0001749 0001610 0001620 0001749 0001610 0001620 0001608 0001610 0001620 0001608 0001610 0001620 0001735 0001610 0001620 0001735 0001610 0001620 0001734 0001610 0001620 0001734 0001610 0001620 0001736 0001610 0001620 0001736 0001610 0001620 0001744 0001610 0001620 0001744 0001610 0001620 0001744 0001610 0001620 0001609 0001610 0001620 0001609 0001610 0001620 0001609 0001740 0001740 0001740 0001740 0001610 0001620 0001580 0001610 0001620 0001605 0001610 0001620 0001609 0001576 0001580 0001576 0001605 0001576 0001609 0001578 0001580 0001578 0001605 0001578 0001609 0001579 0001580 0001579 0001605 0001579 0001609 0001580 0001581 0001580 0001605 "
       \o "0001581 0001580 0001581 0001605 0001582 0001580 0001582 0001605 0001587 0001580 0001587 0001605 0001589 0001581 0001589 0001605 0001590 0001580 0001590 0001605 0001591 0001581 0001591 0001605 0001592 0001605 0001593 0001580 0001593 0001605 0001594 0001580 0001594 0001605 0001601 0001580 0001601 0001605 0001601 0001609 0001602 0001581 0001602 0001605 0001602 0001609 0001603 0001575 0001603 0001580 0001603 0001604 0001603 0001609 0001604 0001580 0001604 0001605 0001604 0001609 0001605 0001580 0001605 0001605 0001605 0001609 0001606 0001580 0001606 0001605 0001606 0001609 0001607 0001580 0001607 0001605 0001607 0001609 0001610 0001580 0001610 0001605 0001610 0001609 0001584 0001648 0001585 0001648 0001609 0001648 0000032 0001612 0001617 0000032 0001613 0001617 0000032 0001614 0001617 0000032 0001615 0001617 0000032 0001616 0001617 0000032 0001617 0001648 0001610 0001620 0001585 0001610 0001620 0001605 0001610 0001620 0001609 0001576 0001585 0001576 "
       \o "0001605 0001576 0001609 0001578 0001585 0001578 0001605 0001578 0001609 0001579 0001585 0001579 0001605 0001579 0001609 0001601 0001609 0001602 0001609 0001603 0001575 0001603 0001604 0001603 0001609 0001604 0001605 0001604 0001609 0001605 0001575 0001605 0001605 0001606 0001585 0001606 0001605 0001606 0001609 0001609 0001648 0001610 0001585 0001610 0001605 0001610 0001609 0001610 0001620 0001580 0001610 0001620 0001605 0001610 0001620 0001607 0001576 0001580 0001576 0001605 0001576 0001607 0001578 0001580 0001578 0001605 0001578 0001607 0001579 0001605 0001580 0001581 0001580 0001605 0001581 0001580 0001581 0001605 0001582 0001580 0001582 0001605 0001587 0001580 0001587 0001605 0001589 0001581 0001589 0001605 0001590 0001580 0001590 0001605 0001591 0001581 0001592 0001605 0001593 0001580 0001593 0001605 0001594 0001580 0001594 0001605 0001601 0001580 0001601 0001605 0001602 0001581 0001602 0001605 0001603 0001580 0001603 0001604 0001604 0001580 "
       \o "0001604 0001605 0001604 0001607 0001605 0001580 0001605 0001605 0001606 0001580 0001606 0001605 0001606 0001607 0001607 0001580 0001607 0001605 0001607 0001648 0001610 0001580 0001610 0001605 0001610 0001607 0001610 0001620 0001605 0001610 0001620 0001607 0001576 0001605 0001576 0001607 0001578 0001605 0001578 0001607 0001579 0001605 0001579 0001607 0001587 0001605 0001587 0001607 0001588 0001605 0001588 0001607 0001603 0001604 0001604 0001605 0001606 0001605 0001606 0001607 0001610 0001605 0001610 0001607 0001600 0001614 0001617 0001600 0001615 0001617 0001600 0001616 0001617 0001591 0001609 0001593 0001609 0001594 0001609 0001587 0001609 0001588 0001609 0001581 0001609 0001580 0001609 0001582 0001609 0001589 0001609 0001590 0001609 0001588 0001580 0001588 0001605 0001588 0001585 0001587 0001585 0001589 0001585 0001590 0001585 0001591 0001609 0001593 0001609 0001594 0001609 0001587 0001609 0001588 0001609 0001581 0001609 0001580 0001609 0001582 "
       \o "0001609 0001589 0001609 0001590 0001609 0001588 0001580 0001588 0001605 0001588 0001585 0001587 0001585 0001589 0001585 0001590 0001585 0001588 0001580 0001588 0001605 0001587 0001607 0001588 0001607 0001591 0001605 0001587 0001580 0001588 0001580 0001591 0001605 0001592 0001605 0001575 0001611 0001575 0001611 0001578 0001580 0001605 0001578 0001581 0001580 0001578 0001581 0001580 0001578 0001581 0001605 0001578 0001582 0001605 0001578 0001605 0001580 0001580 0001605 0001581 0001580 0001605 0001581 0001581 0001605 0001610 0001581 0001605 0001609 0001587 0001581 0001580 0001587 0001580 0001581 0001587 0001580 0001609 0001587 0001605 0001581 0001587 0001605 0001581 0001587 0001605 0001580 0001587 0001605 0001605 0001587 0001605 0001605 0001589 0001581 0001581 0001589 0001581 0001581 0001589 0001605 0001605 0001588 0001581 0001605 0001588 0001581 0001605 0001588 0001580 0001610 0001588 0001605 0001582 0001588 0001605 0001582 0001588 0001605 0001605 "
       \o "0001588 0001605 0001605 0001590 0001581 0001609 0001590 0001582 0001605 0001590 0001582 0001605 0001591 0001605 0001581 0001591 0001605 0001581 0001591 0001605 0001605 0001591 0001605 0001610 0001593 0001580 0001605 0001593 0001605 0001605 0001593 0001605 0001605 0001593 0001605 0001609 0001594 0001605 0001605 0001594 0001605 0001610 0001594 0001605 0001609 0001601 0001582 0001605 0001601 0001582 0001605 0001602 0001605 0001581 0001602 0001605 0001605 0001604 0001581 0001605 0001604 0001581 0001610 0001604 0001581 0001609 0001604 0001580 0001580 0001604 0001580 0001580 0001604 0001582 0001605 0001604 0001582 0001605 0001604 0001605 0001581 0001604 0001605 0001581 0001605 0001581 0001580 0001605 0001581 0001605 0001605 0001581 0001610 0001605 0001580 0001581 0001605 0001580 0001605 0001605 0001582 0001580 0001605 0001582 0001605 0001605 0001580 0001582 0001607 0001605 0001580 0001607 0001605 0001605 0001606 0001581 0001605 0001606 0001581 0001609 "
       \o "0001606 0001580 0001605 0001606 0001580 0001605 0001606 0001580 0001609 0001606 0001605 0001610 0001606 0001605 0001609 0001610 0001605 0001605 0001610 0001605 0001605 0001576 0001582 0001610 0001578 0001580 0001610 0001578 0001580 0001609 0001578 0001582 0001610 0001578 0001582 0001609 0001578 0001605 0001610 0001578 0001605 0001609 0001580 0001605 0001610 0001580 0001581 0001609 0001580 0001605 0001609 0001587 0001582 0001609 0001589 0001581 0001610 0001588 0001581 0001610 0001590 0001581 0001610 0001604 0001580 0001610 0001604 0001605 0001610 0001610 0001581 0001610 0001610 0001580 0001610 0001610 0001605 0001610 0001605 0001605 0001610 0001602 0001605 0001610 0001606 0001581 0001610 0001602 0001605 0001581 0001604 0001581 0001605 0001593 0001605 0001610 0001603 0001605 0001610 0001606 0001580 0001581 0001605 0001582 0001610 0001604 0001580 0001605 0001603 0001605 0001605 0001604 0001580 0001605 0001606 0001580 0001581 0001580 0001581 0001610 "
       \o "0001581 0001580 0001610 0001605 0001580 0001610 0001601 0001605 0001610 0001576 0001581 0001610 0001603 0001605 0001605 0001593 0001580 0001605 0001589 0001605 0001605 0001587 0001582 0001610 0001606 0001580 0001610 0001589 0001604 0001746 0001602 0001604 0001746 0001575 0001604 0001604 0001607 0001575 0001603 0001576 0001585 0001605 0001581 0001605 0001583 0001589 0001604 0001593 0001605 0001585 0001587 0001608 0001604 0001593 0001604 0001610 0001607 0001608 0001587 0001604 0001605 0001589 0001604 0001609 0001589 0001604 0001609 0000032 0001575 0001604 0001604 0001607 0000032 0001593 0001604 0001610 0001607 0000032 0001608 0001587 0001604 0001605 0001580 0001604 0000032 0001580 0001604 0001575 0001604 0001607 0001585 0001740 0001575 0001604 0000044 0012289 0000058 0000033 0000063 0012310 0000046 0000046 0000046 0000046 0000046 0008212 0008211 0000095 0000095 0000040 0000123 0000125 0012308 0012304 0012298 0012296 0012300 0000091 0000093 0000032 "
       \o "0000773 0000032 0000773 0000032 0000773 0000032 0000773 0000095 0000095 0000095 0000044 0012289 0000046 0000059 0000058 0000063 0000033 0008212 0000040 0000123 0000125 0012308 0000035 0000038 0000042 0000045 0000060 0000062 0000061 0000092 0000036 0000064 0000032 0001611 0001600 0001611 0000032 0001612 0000032 0001613 0000032 0001614 0001600 0001614 0000032 0001615 0001600 0001615 0000032 0001616 0001600 0001616 0000032 0001617 0001600 0001617 0000032 0001618 0001600 0001618 0001569 0001575 0001619 0001575 0001619 0001575 0001620 0001608 0001620 0001608 0001620 0001575 0001621 0001575 0001621 0001610 0001620 0001610 0001620 0001610 0001620 0001610 0001620 0001575 0001575 0001576 0001576 0001576 0001577 0001578 0001578 0001578 0001579 0001579 0001579 0001580 0001580 0001580 0001581 0001581 0001581 0001582 0001582 0001582 0001583 0001584 0001585 0001586 0001587 0001587 0001587 0001588 0001588 0001588 0001589 0001589 0001589 0001590 0001590 0001590 "
       \o "0001591 0001591 0001591 0001592 0001592 0001592 0001593 0001593 0001593 0001594 0001594 0001594 0001601 0001601 0001601 0001601 0001602 0001602 0001602 0001603 0001603 0001603 0001604 0001604 0001604 0001605 0001605 0001605 0001606 0001606 0001606 0001607 0001607 0001607 0001608 0001609 0001610 0001610 0001610 0001604 0001575 0001619 0001604 0001575 0001619 0001604 0001575 0001620 0001604 0001575 0001621 0001604 0001575 0001604 0001575 0000033 0010629 0012290 0012300 0012289 0012539 0012530 0012449 0012451 0012453 0012455 0012457 0012515 0012517 0012519 0012483 0012540 0012450 0012452 0012454 0012456 0012458 0012461 0012463 0012465 0012467 0012469 0012471 0012473 0012475 0012477 0012479 0012481 0012484 0012486 0012488 0012490 0012498 0012501 0012504 0012507 0012510 0012516 0012518 0012520 0012527 0012531 0012441 0004448 0004352 0004522 0004354 0004524 0004355 0004528 0004378 0004358 0004385 0004361 0004449 0004455 0004461 0004467 0000162 0000172 "
       \o "0000032 0000772 0000166 0000165 0008361 0009474 0008592 0009632 0009675 0000720 0000230 0000665 0000595 0000675 0043878 0000677 0000676 0000598 0007569 0000600 0000606 0000681 0000612 0000610 0000608 0000667 0000295 0000668 0000615 0000644 0000682 0000620 0122628 0042894 0000622 0122629 0000654 0122630 0000248 0000630 0000113 0000634 0122632 0000637 0000640 0000680 0000678 0043879 0000679 0000648 0011377 0000655 0000673 0000664 0000448 0122634 0122654 0069785 0069818 0069787 0069818 0069797 0069818 0069937 0069927 0069938 0069927 0070471 0070462 0070471 0070487 0070841 0070842 0070841 0070832 0070841 0070845 0071096 0071087 0071097 0071087 0071989 0071984 0119127 0119141 0119128 0119141 0119128 0119141 0119150 0119225 0119141 0119226 0119141 0119225 0119141 0119150 0119226 0119141 0119150 0119225 0119141 0119151 0119226 0119141 0119151 0000065 0000097 0000065 0000097 0000105 0000065 0000097 0000065 0000067 0000071 0000074 0000078 0000083 0000097 "
       \o "0000102 0000104 0000112 0000065 0000097 0000065 0000068 0000074 0000083 0000097 0000065 0000068 0000073 0000079 0000083 0000097 0000065 0000097 0000065 0000097 0000065 0000097 0000065 0000097 0000065 0000097 0000065 0000097 0000305 0000567 0000913 0000920 0000931 0008711 0000945 0008706 0000949 0000952 0000954 0000966 0000961 0000960 0000913 0000920 0000931 0008711 0000945 0008706 0000949 0000952 0000954 0000966 0000961 0000960 0000913 0000920 0000931 0008711 0000945 0008706 0000949 0000952 0000954 0000966 0000961 0000960 0000913 0000920 0000931 0008711 0000945 0008706 0000949 0000952 0000954 0000966 0000961 0000960 0000913 0000920 0000931 0008711 0000945 0008706 0000949 0000952 0000954 0000966 0000961 0000960 0000988 0000048 0000048 0000048 0000048 0000048 0001575 0001580 0001583 0001608 0001586 0001581 0001591 0001610 0001603 0001587 0001593 0001601 0001589 0001602 0001585 0001588 0001578 0001582 0001584 0001590 0001592 0001594 0001646 0001722 "
       \o "0001697 0001647 0001576 0001580 0001607 0001581 0001610 0001603 0001587 0001593 0001601 0001589 0001602 0001588 0001578 0001582 0001590 0001594 0001580 0001581 0001610 0001604 0001606 0001587 0001593 0001589 0001602 0001588 0001582 0001590 0001594 0001722 0001647 0001576 0001580 0001607 0001581 0001591 0001610 0001603 0001605 0001587 0001593 0001601 0001589 0001602 0001588 0001578 0001582 0001590 0001592 0001594 0001646 0001697 0001575 0001580 0001583 0001607 0001586 0001581 0001591 0001610 0001604 0001587 0001593 0001601 0001589 0001602 0001585 0001588 0001578 0001582 0001584 0001590 0001592 0001594 0001576 0001580 0001583 0001608 0001586 0001581 0001591 0001610 0001604 0001587 0001593 0001601 0001589 0001602 0001585 0001588 0001578 0001582 0001584 0001590 0001592 0001594 0000048 0000046 0000048 0000044 0000049 0000044 0000050 0000044 0000051 0000044 0000052 0000044 0000053 0000044 0000054 0000044 0000055 0000044 0000056 0000044 0000057 0000044 "
       \o "0000040 0000065 0000041 0000040 0000066 0000041 0000040 0000067 0000041 0000040 0000068 0000041 0000040 0000069 0000041 0000040 0000070 0000041 0000040 0000071 0000041 0000040 0000072 0000041 0000040 0000073 0000041 0000040 0000074 0000041 0000040 0000075 0000041 0000040 0000076 0000041 0000040 0000077 0000041 0000040 0000078 0000041 0000040 0000079 0000041 0000040 0000080 0000041 0000040 0000081 0000041 0000040 0000082 0000041 0000040 0000083 0000041 0000040 0000084 0000041 0000040 0000085 0000041 0000040 0000086 0000041 0000040 0000087 0000041 0000040 0000088 0000041 0000040 0000089 0000041 0000040 0000090 0000041 0012308 0000083 0012309 0000067 0000082 0000067 0000068 0000087 0000090 0000065 0000072 0000086 0000077 0000086 0000083 0000068 0000083 0000083 0000080 0000080 0000086 0000087 0000067 0000077 0000067 0000077 0000082 0000068 0000074 0012411 0012363 0012467 0012467 0012469 0025163 0023383 0021452 0012486 0012441 0020108 0022810 0035299 "
       \o "0022825 0020132 0026144 0028961 0026009 0021069 0024460 0020877 0026032 0021021 0032066 0029983 0036009 0022768 0021561 0028436 0025237 0025429 0019968 0019977 0036938 0024038 0020013 0021491 0025351 0036208 0025171 0031105 0031354 0021512 0028288 0026377 0026376 0030003 0021106 0021942 0037197 0012308 0026412 0012309 0012308 0019977 0012309 0012308 0020108 0012309 0012308 0023433 0012309 0012308 0028857 0012309 0012308 0025171 0012309 0012308 0030423 0012309 0012308 0021213 0012309 0012308 0025943 0012309 0024471 0021487 0000048 0020029 0020024 0020033 0131362 0020320 0020398 0020411 0020482 0020602 0020633 0020711 0020687 0013470 0132666 0020813 0020820 0020836 0020855 0132380 0013497 0020839 0020877 0132427 0020887 0020900 0020172 0020908 0020917 0168415 0020981 0020995 0013535 0021051 0021062 0021106 0021111 0013589 0021191 0021193 0021220 0021242 0021253 0021271 0021321 0021329 0021338 0021363 0021373 0021375 0021375 0021375 0133676 0028784 "
       \o "0021450 0021471 0133987 0021483 0021489 0021510 0021662 0021560 0021576 0021608 0021666 0021750 0021776 0021843 0021859 0021892 0021892 0021913 0021931 0021939 0021954 0022294 0022022 0022295 0022097 0022132 0020999 0022766 0022478 0022516 0022541 0022411 0022578 0022577 0022700 0136420 0022770 0022775 0022790 0022810 0022818 0022882 0136872 0136938 0023020 0023067 0023079 0023000 0023142 0014062 0014076 0023304 0023358 0023358 0137672 0023491 0023512 0023527 0023539 0138008 0023551 0023558 0024403 0023586 0014209 0023648 0023662 0023744 0023693 0138724 0023875 0138726 0023918 0023915 0023932 0024033 0014383 0024061 0024104 0024125 0024169 0014434 0139651 0014460 0024240 0024243 0024246 0024266 0172946 0024318 0140081 0140081 0033281 0024354 0024354 0014535 0144056 0156122 0024418 0024427 0014563 0024474 0024525 0024535 0024569 0024705 0014650 0014620 0024724 0141012 0024775 0024904 0024908 0024910 0024908 0024954 0024974 0025010 0024996 0025007 "
       \o "0025054 0025074 0025078 0025104 0025115 0025181 0025265 0025300 0025424 0142092 0025405 0025340 0025448 0025475 0025572 0142321 0025634 0025541 0025513 0014894 0025705 0025726 0025757 0025719 0014956 0025935 0025964 0143370 0026083 0026360 0026185 0015129 0026257 0015112 0015076 0020882 0020885 0026368 0026268 0032941 0017369 0026391 0026395 0026401 0026462 0026451 0144323 0015177 0026618 0026501 0026706 0026757 0144493 0026766 0026655 0026900 0015261 0026946 0027043 0027114 0027304 0145059 0027355 0015384 0027425 0145575 0027476 0015438 0027506 0027551 0027578 0146061 0138507 0146170 0027726 0146620 0027839 0027853 0027751 0027926 0027966 0028023 0027969 0028009 0028024 0028037 0146718 0027956 0028207 0028270 0015667 0028363 0028359 0147153 0028153 0028526 0147294 0147342 0028614 0028729 0028702 0028699 0015766 0028746 0028797 0028791 0028845 0132389 0028997 0148067 0029084 0148395 0029224 0029237 0029264 0149000 0029312 0029333 0149301 0149524 "
       \o "0029562 0029579 0016044 0029605 0016056 0016056 0029767 0029788 0029809 0029829 0029898 0016155 0029988 0150582 0030014 0150674 0030064 0139679 0030224 0151457 0151480 0151620 0016380 0016392 0030452 0151795 0151794 0151833 0151859 0030494 0030495 0030538 0016441 0030603 0016454 0016534 0152605 0030798 0030860 0030924 0016611 0153126 0031062 0153242 0153285 0031119 0031211 0016687 0031296 0031306 0031311 0153980 0154279 0154279 0031470 0016898 0154539 0031686 0031689 0016935 0154752 0031954 0017056 0031976 0031971 0032000 0155526 0032099 0017153 0032199 0032258 0032325 0017204 0156200 0156231 0017241 0156377 0032634 0156478 0032661 0032762 0032773 0156890 0156963 0032864 0157096 0032880 0144223 0017365 0032946 0033027 0017419 0033086 0023221 0157607 0157621 0144275 0144284 0033281 0033284 0036766 0017515 0033425 0033419 0033437 0021171 0033457 0033459 0033469 0033510 0158524 0033509 0033565 0033635 0033709 0033571 0033725 0033767 0033879 0033619 "
       \o "0033738 0033740 0033756 0158774 0159083 0158933 0017707 0034033 0034035 0034070 0160714 0034148 0159532 0017757 0017761 0159665 0159954 0017771 0034384 0034396 0034407 0034409 0034473 0034440 0034574 0034530 0034681 0034600 0034667 0034694 0017879 0034785 0034817 0017913 0034912 0034915 0161383 0035031 0035038 0017973 0035066 0013499 0161966 0162150 0018110 0018119 0035488 0035565 0035722 0035925 0162984 0036011 0036033 0036123 0036215 0163631 0133124 0036299 0036284 0036336 0133342 0036564 0036664 0165330 0165357 0037012 0037105 0037137 0165678 0037147 0037432 0037591 0037500 0037881 0037909 0166906 0038283 0018837 0038327 0167287 0018918 0038595 0023986 0038691 0168261 0168474 0019054 0019062 0038880 0168970 0019122 0169110 0038923 0038923 0038953 0169398 0039138 0019251 0039209 0039335 0039362 0039422 0019406 0170800 0039698 0040000 0040189 0019662 0019693 0040295 0172238 0019704 0172293 0172558 0172689 0040635 0019798 0040697 0040702 0040709 "
       \o "0040719 0040726 0040763 0173568",
       1)

\* The full compatibility decomposition (NFKD) of one character, Hangul
\* syllables apart: <<lo, hi, at, n>> says that c decomposes into the n
\* characters of DecompChars from at on, with c - lo added to the last
DecompRuns ==
  Rows("0000160 0000160 0000001 0000001 0000168 0000168 0000002 0000002 0000170 0000170 0000004 0000001 0000175 0000175 0000005 0000002 0000178 0000179 0000007 0000001 0000180 0000180 0000008 0000002 0000181 0000181 0000010 0000001 0000184 0000184 0000011 0000002 0000185 0000185 0000013 0000001 0000186 0000186 0000014 0000001 0000188 0000188 0000015 0000003 0000189 0000189 0000018 0000003 0000190 0000190 0000021 0000003 0000192 0000195 0000024 0000002 0000196 0000196 0000026 0000002 0000197 0000197 0000028 0000002 0000199 0000199 0000030 0000002 0000200 0000202 0000032 0000002 0000203 0000203 0000034 0000002 0000204 0000206 0000036 0000002 0000207 0000207 0000038 0000002 0000209 0000209 0000040 0000002 0000210 0000213 0000042 0000002 0000214 0000214 0000044 0000002 0000217 0000219 0000046 0000002 0000220 0000220 0000048 0000002 0000221 0000221 0000050 0000002 0000224 0000227 0000052 0000002 0000228 0000228 0000054 0000002 0000229 0000229 0000056 0000002 "
       \o "0000231 0000231 0000058 0000002 0000232 0000234 0000060 0000002 0000235 0000235 0000062 0000002 0000236 0000238 0000064 0000002 0000239 0000239 0000066 0000002 0000241 0000241 0000068 0000002 0000242 0000245 0000070 0000002 0000246 0000246 0000072 0000002 0000249 0000251 0000074 0000002 0000252 0000252 0000076 0000002 0000253 0000253 0000078 0000002 0000255 0000255 0000080 0000002 0000256 0000256 0000082 0000002 0000257 0000257 0000084 0000002 0000258 0000258 0000086 0000002 0000259 0000259 0000088 0000002 0000260 0000260 0000090 0000002 0000261 0000261 0000092 0000002 0000262 0000262 0000094 0000002 0000263 0000263 0000096 0000002 0000264 0000264 0000098 0000002 0000265 0000265 0000100 0000002 0000266 0000266 0000102 0000002 0000267 0000267 0000104 0000002 0000268 0000268 0000106 0000002 0000269 0000269 0000108 0000002 0000270 0000270 0000110 0000002 0000271 0000271 0000112 0000002 0000274 0000274 0000114 0000002 0000275 0000275 0000116 0000002 "
       \o "0000276 0000276 0000118 0000002 0000277 0000277 0000120 0000002 0000278 0000278 0000122 0000002 0000279 0000279 0000124 0000002 0000280 0000280 0000126 0000002 0000281 0000281 0000128 0000002 0000282 0000282 0000130 0000002 0000283 0000283 0000132 0000002 0000284 0000284 0000134 0000002 0000285 0000285 0000136 0000002 0000286 0000286 0000138 0000002 0000287 0000287 0000140 0000002 0000288 0000288 0000142 0000002 0000289 0000289 0000144 0000002 0000290 0000290 0000146 0000002 0000291 0000291 0000148 0000002 0000292 0000292 0000150 0000002 0000293 0000293 0000152 0000002 0000296 0000296 0000154 0000002 0000297 0000297 0000156 0000002 0000298 0000298 0000158 0000002 0000299 0000299 0000160 0000002 0000300 0000300 0000162 0000002 0000301 0000301 0000164 0000002 0000302 0000302 0000166 0000002 0000303 0000303 0000168 0000002 0000304 0000304 0000170 0000002 0000306 0000306 0000172 0000002 0000307 0000307 0000174 0000002 0000308 0000308 0000176 0000002 "
       \o "0000309 0000309 0000178 0000002 0000310 0000310 0000180 0000002 0000311 0000311 0000182 0000002 0000313 0000313 0000184 0000002 0000314 0000314 0000186 0000002 0000315 0000315 0000188 0000002 0000316 0000316 0000190 0000002 0000317 0000317 0000192 0000002 0000318 0000318 0000194 0000002 0000319 0000319 0000196 0000002 0000320 0000320 0000198 0000002 0000323 0000323 0000200 0000002 0000324 0000324 0000202 0000002 0000325 0000325 0000204 0000002 0000326 0000326 0000206 0000002 0000327 0000327 0000208 0000002 0000328 0000328 0000210 0000002 0000329 0000329 0000212 0000002 0000332 0000332 0000214 0000002 0000333 0000333 0000216 0000002 0000334 0000334 0000218 0000002 0000335 0000335 0000220 0000002 0000336 0000336 0000222 0000002 0000337 0000337 0000224 0000002 0000340 0000340 0000226 0000002 0000341 0000341 0000228 0000002 0000342 0000342 0000230 0000002 0000343 0000343 0000232 0000002 0000344 0000344 0000234 0000002 0000345 0000345 0000236 0000002 "
       \o "0000346 0000346 0000238 0000002 0000347 0000347 0000240 0000002 0000348 0000348 0000242 0000002 0000349 0000349 0000244 0000002 0000350 0000350 0000246 0000002 0000351 0000351 0000248 0000002 0000352 0000352 0000250 0000002 0000353 0000353 0000252 0000002 0000354 0000354 0000254 0000002 0000355 0000355 0000256 0000002 0000356 0000356 0000258 0000002 0000357 0000357 0000260 0000002 0000360 0000360 0000262 0000002 0000361 0000361 0000264 0000002 0000362 0000362 0000266 0000002 0000363 0000363 0000268 0000002 0000364 0000364 0000270 0000002 0000365 0000365 0000272 0000002 0000366 0000366 0000274 0000002 0000367 0000367 0000276 0000002 0000368 0000368 0000278 0000002 0000369 0000369 0000280 0000002 0000370 0000370 0000282 0000002 0000371 0000371 0000284 0000002 0000372 0000372 0000286 0000002 0000373 0000373 0000288 0000002 0000374 0000374 0000290 0000002 0000375 0000375 0000292 0000002 0000376 0000376 0000294 0000002 0000377 0000377 0000296 0000002 "
       \o "0000378 0000378 0000298 0000002 0000379 0000379 0000300 0000002 0000380 0000380 0000302 0000002 0000381 0000381 0000304 0000002 0000382 0000382 0000306 0000002 0000383 0000383 0000308 0000001 0000416 0000416 0000309 0000002 0000417 0000417 0000311 0000002 0000431 0000431 0000313 0000002 0000432 0000432 0000315 0000002 0000452 0000452 0000317 0000003 0000453 0000453 0000320 0000003 0000454 0000454 0000323 0000003 0000455 0000455 0000326 0000002 0000456 0000456 0000328 0000002 0000457 0000457 0000330 0000002 0000458 0000458 0000332 0000002 0000459 0000459 0000334 0000002 0000460 0000460 0000336 0000002 0000461 0000461 0000338 0000002 0000462 0000462 0000340 0000002 0000463 0000463 0000342 0000002 0000464 0000464 0000344 0000002 0000465 0000465 0000346 0000002 0000466 0000466 0000348 0000002 0000467 0000467 0000350 0000002 0000468 0000468 0000352 0000002 0000469 0000469 0000354 0000003 0000470 0000470 0000357 0000003 0000471 0000471 0000360 0000003 "
       \o "0000472 0000472 0000363 0000003 0000473 0000473 0000366 0000003 0000474 0000474 0000369 0000003 0000475 0000475 0000372 0000003 0000476 0000476 0000375 0000003 0000478 0000478 0000378 0000003 0000479 0000479 0000381 0000003 0000480 0000480 0000384 0000003 0000481 0000481 0000387 0000003 0000482 0000482 0000390 0000002 0000483 0000483 0000392 0000002 0000486 0000486 0000394 0000002 0000487 0000487 0000396 0000002 0000488 0000488 0000398 0000002 0000489 0000489 0000400 0000002 0000490 0000490 0000402 0000002 0000491 0000491 0000404 0000002 0000492 0000492 0000406 0000003 0000493 0000493 0000409 0000003 0000494 0000494 0000412 0000002 0000495 0000495 0000414 0000002 0000496 0000496 0000416 0000002 0000497 0000497 0000418 0000002 0000498 0000498 0000420 0000002 0000499 0000499 0000422 0000002 0000500 0000500 0000424 0000002 0000501 0000501 0000426 0000002 0000504 0000504 0000428 0000002 0000505 0000505 0000430 0000002 0000506 0000506 0000432 0000003 "
       \o "0000507 0000507 0000435 0000003 0000508 0000508 0000438 0000002 0000509 0000509 0000440 0000002 0000510 0000510 0000442 0000002 0000511 0000511 0000444 0000002 0000512 0000512 0000446 0000002 0000513 0000513 0000448 0000002 0000514 0000514 0000450 0000002 0000515 0000515 0000452 0000002 0000516 0000516 0000454 0000002 0000517 0000517 0000456 0000002 0000518 0000518 0000458 0000002 0000519 0000519 0000460 0000002 0000520 0000520 0000462 0000002 0000521 0000521 0000464 0000002 0000522 0000522 0000466 0000002 0000523 0000523 0000468 0000002 0000524 0000524 0000470 0000002 0000525 0000525 0000472 0000002 0000526 0000526 0000474 0000002 0000527 0000527 0000476 0000002 0000528 0000528 0000478 0000002 0000529 0000529 0000480 0000002 0000530 0000530 0000482 0000002 0000531 0000531 0000484 0000002 0000532 0000532 0000486 0000002 0000533 0000533 0000488 0000002 0000534 0000534 0000490 0000002 0000535 0000535 0000492 0000002 0000536 0000536 0000494 0000002 "
       \o "0000537 0000537 0000496 0000002 0000538 0000538 0000498 0000002 0000539 0000539 0000500 0000002 0000542 0000542 0000502 0000002 0000543 0000543 0000504 0000002 0000550 0000550 0000506 0000002 0000551 0000551 0000508 0000002 0000552 0000552 0000510 0000002 0000553 0000553 0000512 0000002 0000554 0000554 0000514 0000003 0000555 0000555 0000517 0000003 0000556 0000556 0000520 0000003 0000557 0000557 0000523 0000003 0000558 0000558 0000526 0000002 0000559 0000559 0000528 0000002 0000560 0000560 0000530 0000003 0000561 0000561 0000533 0000003 0000562 0000562 0000536 0000002 0000563 0000563 0000538 0000002 0000688 0000688 0000540 0000001 0000689 0000689 0000541 0000001 0000690 0000690 0000542 0000001 0000691 0000691 0000543 0000001 0000692 0000692 0000544 0000001 0000693 0000693 0000545 0000001 0000694 0000694 0000546 0000001 0000695 0000695 0000547 0000001 0000696 0000696 0000548 0000001 0000728 0000729 0000549 0000002 0000730 0000730 0000551 0000002 "
       \o "0000731 0000731 0000553 0000002 0000732 0000732 0000555 0000002 0000733 0000733 0000557 0000002 0000736 0000736 0000559 0000001 0000737 0000737 0000560 0000001 0000738 0000738 0000561 0000001 0000739 0000739 0000562 0000001 0000740 0000740 0000563 0000001 0000832 0000833 0000564 0000001 0000835 0000835 0000565 0000001 0000836 0000836 0000566 0000002 0000884 0000884 0000568 0000001 0000890 0000890 0000569 0000002 0000894 0000894 0000571 0000001 0000900 0000900 0000572 0000002 0000901 0000901 0000574 0000003 0000902 0000902 0000577 0000002 0000903 0000903 0000579 0000001 0000904 0000904 0000580 0000002 0000905 0000905 0000582 0000002 0000906 0000906 0000584 0000002 0000908 0000908 0000586 0000002 0000910 0000910 0000588 0000002 0000911 0000911 0000590 0000002 0000912 0000912 0000592 0000003 0000938 0000938 0000595 0000002 0000939 0000939 0000597 0000002 0000940 0000940 0000599 0000002 0000941 0000941 0000601 0000002 0000942 0000942 0000603 0000002 "
       \o "0000943 0000943 0000605 0000002 0000944 0000944 0000607 0000003 0000970 0000970 0000610 0000002 0000971 0000971 0000612 0000002 0000972 0000972 0000614 0000002 0000973 0000973 0000616 0000002 0000974 0000974 0000618 0000002 0000976 0000976 0000620 0000001 0000977 0000977 0000621 0000001 0000978 0000978 0000622 0000001 0000979 0000979 0000623 0000002 0000980 0000980 0000625 0000002 0000981 0000981 0000627 0000001 0000982 0000982 0000628 0000001 0001008 0001008 0000629 0000001 0001009 0001010 0000630 0000001 0001012 0001012 0000631 0000001 0001013 0001013 0000632 0000001 0001017 0001017 0000633 0000001 0001024 0001024 0000634 0000002 0001025 0001025 0000636 0000002 0001027 0001027 0000638 0000002 0001031 0001031 0000640 0000002 0001036 0001036 0000642 0000002 0001037 0001037 0000644 0000002 0001038 0001038 0000646 0000002 0001049 0001049 0000648 0000002 0001081 0001081 0000650 0000002 0001104 0001104 0000652 0000002 0001105 0001105 0000654 0000002 "
       \o "0001107 0001107 0000656 0000002 0001111 0001111 0000658 0000002 0001116 0001116 0000660 0000002 0001117 0001117 0000662 0000002 0001118 0001118 0000664 0000002 0001142 0001142 0000666 0000002 0001143 0001143 0000668 0000002 0001217 0001217 0000670 0000002 0001218 0001218 0000672 0000002 0001232 0001232 0000674 0000002 0001233 0001233 0000676 0000002 0001234 0001234 0000678 0000002 0001235 0001235 0000680 0000002 0001238 0001238 0000682 0000002 0001239 0001239 0000684 0000002 0001242 0001242 0000686 0000002 0001243 0001243 0000688 0000002 0001244 0001244 0000690 0000002 0001245 0001245 0000692 0000002 0001246 0001246 0000694 0000002 0001247 0001247 0000696 0000002 0001250 0001250 0000698 0000002 0001251 0001251 0000700 0000002 0001252 0001252 0000702 0000002 0001253 0001253 0000704 0000002 0001254 0001254 0000706 0000002 0001255 0001255 0000708 0000002 0001258 0001258 0000710 0000002 0001259 0001259 0000712 0000002 0001260 0001260 0000714 0000002 "
       \o "0001261 0001261 0000716 0000002 0001262 0001262 0000718 0000002 0001263 0001263 0000720 0000002 0001264 0001264 0000722 0000002 0001265 0001265 0000724 0000002 0001266 0001266 0000726 0000002 0001267 0001267 0000728 0000002 0001268 0001268 0000730 0000002 0001269 0001269 0000732 0000002 0001272 0001272 0000734 0000002 0001273 0001273 0000736 0000002 0001415 0001415 0000738 0000002 0001570 0001571 0000740 0000002 0001572 0001572 0000742 0000002 0001573 0001573 0000744 0000002 0001574 0001574 0000746 0000002 0001653 0001653 0000748 0000002 0001654 0001654 0000750 0000002 0001655 0001655 0000752 0000002 0001656 0001656 0000754 0000002 0001728 0001728 0000756 0000002 0001730 0001730 0000758 0000002 0001747 0001747 0000760 0000002 0002345 0002345 0000762 0000002 0002353 0002353 0000764 0000002 0002356 0002356 0000766 0000002 0002392 0002392 0000768 0000002 0002393 0002393 0000770 0000002 0002394 0002394 0000772 0000002 0002395 0002395 0000774 0000002 "
       \o "0002396 0002396 0000776 0000002 0002397 0002397 0000778 0000002 0002398 0002398 0000780 0000002 0002399 0002399 0000782 0000002 0002507 0002507 0000784 0000002 0002508 0002508 0000786 0000002 0002524 0002524 0000788 0000002 0002525 0002525 0000790 0000002 0002527 0002527 0000792 0000002 0002611 0002611 0000794 0000002 0002614 0002614 0000796 0000002 0002649 0002649 0000798 0000002 0002650 0002650 0000800 0000002 0002651 0002651 0000802 0000002 0002654 0002654 0000804 0000002 0002888 0002888 0000806 0000002 0002891 0002891 0000808 0000002 0002892 0002892 0000810 0000002 0002908 0002908 0000812 0000002 0002909 0002909 0000814 0000002 0002964 0002964 0000816 0000002 0003018 0003018 0000818 0000002 0003019 0003019 0000820 0000002 0003020 0003020 0000822 0000002 0003144 0003144 0000824 0000002 0003264 0003264 0000826 0000002 0003271 0003272 0000828 0000002 0003274 0003274 0000830 0000002 0003275 0003275 0000832 0000003 0003402 0003402 0000835 0000002 "
       \o "0003403 0003403 0000837 0000002 0003404 0003404 0000839 0000002 0003546 0003546 0000841 0000002 0003548 0003548 0000843 0000002 0003549 0003549 0000845 0000003 0003550 0003550 0000848 0000002 0003635 0003635 0000850 0000002 0003763 0003763 0000852 0000002 0003804 0003804 0000854 0000002 0003805 0003805 0000856 0000002 0003852 0003852 0000858 0000001 0003907 0003907 0000859 0000002 0003917 0003917 0000861 0000002 0003922 0003922 0000863 0000002 0003927 0003927 0000865 0000002 0003932 0003932 0000867 0000002 0003945 0003945 0000869 0000002 0003955 0003955 0000871 0000002 0003957 0003957 0000873 0000002 0003958 0003958 0000875 0000002 0003959 0003959 0000877 0000003 0003960 0003960 0000880 0000002 0003961 0003961 0000882 0000003 0003969 0003969 0000885 0000002 0003987 0003987 0000887 0000002 0003997 0003997 0000889 0000002 0004002 0004002 0000891 0000002 0004007 0004007 0000893 0000002 0004012 0004012 0000895 0000002 0004025 0004025 0000897 0000002 "
       \o "0004134 0004134 0000899 0000002 0004348 0004348 0000901 0000001 0006918 0006918 0000902 0000002 0006920 0006920 0000904 0000002 0006922 0006922 0000906 0000002 0006924 0006924 0000908 0000002 0006926 0006926 0000910 0000002 0006930 0006930 0000912 0000002 0006971 0006971 0000914 0000002 0006973 0006973 0000916 0000002 0006976 0006976 0000918 0000002 0006977 0006977 0000920 0000002 0006979 0006979 0000922 0000002 0007468 0007468 0000924 0000001 0007469 0007469 0000925 0000001 0007470 0007470 0000926 0000001 0007472 0007473 0000927 0000001 0007474 0007474 0000928 0000001 0007475 0007482 0000929 0000001 0007484 0007484 0000930 0000001 0007485 0007485 0000931 0000001 0007486 0007486 0000932 0000001 0007487 0007487 0000933 0000001 0007488 0007489 0000934 0000001 0007490 0007490 0000935 0000001 0007491 0007491 0000936 0000001 0007492 0007493 0000937 0000001 0007494 0007494 0000938 0000001 0007495 0007495 0000939 0000001 0007496 0007497 0000940 0000001 "
       \o "0007498 0007498 0000941 0000001 0007499 0007500 0000942 0000001 0007501 0007501 0000943 0000001 0007503 0007503 0000944 0000001 0007504 0007504 0000945 0000001 0007505 0007505 0000946 0000001 0007506 0007506 0000947 0000001 0007507 0007507 0000948 0000001 0007508 0007509 0000949 0000001 0007510 0007510 0000950 0000001 0007511 0007512 0000951 0000001 0007513 0007513 0000952 0000001 0007514 0007514 0000953 0000001 0007515 0007515 0000954 0000001 0007516 0007516 0000955 0000001 0007517 0007519 0000956 0000001 0007520 0007521 0000957 0000001 0007522 0007522 0000958 0000001 0007523 0007523 0000959 0000001 0007524 0007525 0000960 0000001 0007526 0007527 0000961 0000001 0007528 0007528 0000962 0000001 0007529 0007530 0000963 0000001 0007544 0007544 0000964 0000001 0007579 0007579 0000965 0000001 0007580 0007580 0000966 0000001 0007581 0007581 0000967 0000001 0007582 0007582 0000968 0000001 0007583 0007583 0000969 0000001 0007584 0007584 0000970 0000001 "
       \o "0007585 0007585 0000971 0000001 0007586 0007586 0000972 0000001 0007587 0007587 0000973 0000001 0007588 0007590 0000974 0000001 0007591 0007591 0000975 0000001 0007592 0007592 0000976 0000001 0007593 0007593 0000977 0000001 0007594 0007594 0000978 0000001 0007595 0007595 0000979 0000001 0007596 0007596 0000980 0000001 0007597 0007597 0000981 0000001 0007598 0007601 0000982 0000001 0007602 0007602 0000983 0000001 0007603 0007604 0000984 0000001 0007605 0007605 0000985 0000001 0007606 0007607 0000986 0000001 0007608 0007608 0000987 0000001 0007609 0007610 0000988 0000001 0007611 0007611 0000989 0000001 0007612 0007614 0000990 0000001 0007615 0007615 0000991 0000001 0007680 0007680 0000992 0000002 0007681 0007681 0000994 0000002 0007682 0007682 0000996 0000002 0007683 0007683 0000998 0000002 0007684 0007684 0001000 0000002 0007685 0007685 0001002 0000002 0007686 0007686 0001004 0000002 0007687 0007687 0001006 0000002 0007688 0007688 0001008 0000003 "
       \o "0007689 0007689 0001011 0000003 0007690 0007690 0001014 0000002 0007691 0007691 0001016 0000002 0007692 0007692 0001018 0000002 0007693 0007693 0001020 0000002 0007694 0007694 0001022 0000002 0007695 0007695 0001024 0000002 0007696 0007696 0001026 0000002 0007697 0007697 0001028 0000002 0007698 0007698 0001030 0000002 0007699 0007699 0001032 0000002 0007700 0007700 0001034 0000003 0007701 0007701 0001037 0000003 0007702 0007702 0001040 0000003 0007703 0007703 0001043 0000003 0007704 0007704 0001046 0000002 0007705 0007705 0001048 0000002 0007706 0007706 0001050 0000002 0007707 0007707 0001052 0000002 0007708 0007708 0001054 0000003 0007709 0007709 0001057 0000003 0007710 0007710 0001060 0000002 0007711 0007711 0001062 0000002 0007712 0007712 0001064 0000002 0007713 0007713 0001066 0000002 0007714 0007714 0001068 0000002 0007715 0007715 0001070 0000002 0007716 0007716 0001072 0000002 0007717 0007717 0001074 0000002 0007718 0007718 0001076 0000002 "
       \o "0007719 0007719 0001078 0000002 0007720 0007720 0001080 0000002 0007721 0007721 0001082 0000002 0007722 0007722 0001084 0000002 0007723 0007723 0001086 0000002 0007724 0007724 0001088 0000002 0007725 0007725 0001090 0000002 0007726 0007726 0001092 0000003 0007727 0007727 0001095 0000003 0007728 0007728 0001098 0000002 0007729 0007729 0001100 0000002 0007730 0007730 0001102 0000002 0007731 0007731 0001104 0000002 0007732 0007732 0001106 0000002 0007733 0007733 0001108 0000002 0007734 0007734 0001110 0000002 0007735 0007735 0001112 0000002 0007736 0007736 0001114 0000003 0007737 0007737 0001117 0000003 0007738 0007738 0001120 0000002 0007739 0007739 0001122 0000002 0007740 0007740 0001124 0000002 0007741 0007741 0001126 0000002 0007742 0007742 0001128 0000002 0007743 0007743 0001130 0000002 0007744 0007744 0001132 0000002 0007745 0007745 0001134 0000002 0007746 0007746 0001136 0000002 0007747 0007747 0001138 0000002 0007748 0007748 0001140 0000002 "
       \o "0007749 0007749 0001142 0000002 0007750 0007750 0001144 0000002 0007751 0007751 0001146 0000002 0007752 0007752 0001148 0000002 0007753 0007753 0001150 0000002 0007754 0007754 0001152 0000002 0007755 0007755 0001154 0000002 0007756 0007756 0001156 0000003 0007757 0007757 0001159 0000003 0007758 0007758 0001162 0000003 0007759 0007759 0001165 0000003 0007760 0007760 0001168 0000003 0007761 0007761 0001171 0000003 0007762 0007762 0001174 0000003 0007763 0007763 0001177 0000003 0007764 0007764 0001180 0000002 0007765 0007765 0001182 0000002 0007766 0007766 0001184 0000002 0007767 0007767 0001186 0000002 0007768 0007768 0001188 0000002 0007769 0007769 0001190 0000002 0007770 0007770 0001192 0000002 0007771 0007771 0001194 0000002 0007772 0007772 0001196 0000003 0007773 0007773 0001199 0000003 0007774 0007774 0001202 0000002 0007775 0007775 0001204 0000002 0007776 0007776 0001206 0000002 0007777 0007777 0001208 0000002 0007778 0007778 0001210 0000002 "
       \o "0007779 0007779 0001212 0000002 0007780 0007780 0001214 0000003 0007781 0007781 0001217 0000003 0007782 0007782 0001220 0000003 0007783 0007783 0001223 0000003 0007784 0007784 0001226 0000003 0007785 0007785 0001229 0000003 0007786 0007786 0001232 0000002 0007787 0007787 0001234 0000002 0007788 0007788 0001236 0000002 0007789 0007789 0001238 0000002 0007790 0007790 0001240 0000002 0007791 0007791 0001242 0000002 0007792 0007792 0001244 0000002 0007793 0007793 0001246 0000002 0007794 0007794 0001248 0000002 0007795 0007795 0001250 0000002 0007796 0007796 0001252 0000002 0007797 0007797 0001254 0000002 0007798 0007798 0001256 0000002 0007799 0007799 0001258 0000002 0007800 0007800 0001260 0000003 0007801 0007801 0001263 0000003 0007802 0007802 0001266 0000003 0007803 0007803 0001269 0000003 0007804 0007804 0001272 0000002 0007805 0007805 0001274 0000002 0007806 0007806 0001276 0000002 0007807 0007807 0001278 0000002 0007808 0007808 0001280 0000002 "
       \o "0007809 0007809 0001282 0000002 0007810 0007810 0001284 0000002 0007811 0007811 0001286 0000002 0007812 0007812 0001288 0000002 0007813 0007813 0001290 0000002 0007814 0007814 0001292 0000002 0007815 0007815 0001294 0000002 0007816 0007816 0001296 0000002 0007817 0007817 0001298 0000002 0007818 0007818 0001300 0000002 0007819 0007819 0001302 0000002 0007820 0007820 0001304 0000002 0007821 0007821 0001306 0000002 0007822 0007822 0001308 0000002 0007823 0007823 0001310 0000002 0007824 0007824 0001312 0000002 0007825 0007825 0001314 0000002 0007826 0007826 0001316 0000002 0007827 0007827 0001318 0000002 0007828 0007828 0001320 0000002 0007829 0007829 0001322 0000002 0007830 0007830 0001324 0000002 0007831 0007831 0001326 0000002 0007832 0007832 0001328 0000002 0007833 0007833 0001330 0000002 0007834 0007834 0001332 0000002 0007835 0007835 0001334 0000002 0007840 0007840 0001336 0000002 0007841 0007841 0001338 0000002 0007842 0007842 0001340 0000002 "
       \o "0007843 0007843 0001342 0000002 0007844 0007844 0001344 0000003 0007845 0007845 0001347 0000003 0007846 0007846 0001350 0000003 0007847 0007847 0001353 0000003 0007848 0007848 0001356 0000003 0007849 0007849 0001359 0000003 0007850 0007850 0001362 0000003 0007851 0007851 0001365 0000003 0007852 0007852 0001368 0000003 0007853 0007853 0001371 0000003 0007854 0007854 0001374 0000003 0007855 0007855 0001377 0000003 0007856 0007856 0001380 0000003 0007857 0007857 0001383 0000003 0007858 0007858 0001386 0000003 0007859 0007859 0001389 0000003 0007860 0007860 0001392 0000003 0007861 0007861 0001395 0000003 0007862 0007862 0001398 0000003 0007863 0007863 0001401 0000003 0007864 0007864 0001404 0000002 0007865 0007865 0001406 0000002 0007866 0007866 0001408 0000002 0007867 0007867 0001410 0000002 0007868 0007868 0001412 0000002 0007869 0007869 0001414 0000002 0007870 0007870 0001416 0000003 0007871 0007871 0001419 0000003 0007872 0007872 0001422 0000003 "
       \o "0007873 0007873 0001425 0000003 0007874 0007874 0001428 0000003 0007875 0007875 0001431 0000003 0007876 0007876 0001434 0000003 0007877 0007877 0001437 0000003 0007878 0007878 0001440 0000003 0007879 0007879 0001443 0000003 0007880 0007880 0001446 0000002 0007881 0007881 0001448 0000002 0007882 0007882 0001450 0000002 0007883 0007883 0001452 0000002 0007884 0007884 0001454 0000002 0007885 0007885 0001456 0000002 0007886 0007886 0001458 0000002 0007887 0007887 0001460 0000002 0007888 0007888 0001462 0000003 0007889 0007889 0001465 0000003 0007890 0007890 0001468 0000003 0007891 0007891 0001471 0000003 0007892 0007892 0001474 0000003 0007893 0007893 0001477 0000003 0007894 0007894 0001480 0000003 0007895 0007895 0001483 0000003 0007896 0007896 0001486 0000003 0007897 0007897 0001489 0000003 0007898 0007898 0001492 0000003 0007899 0007899 0001495 0000003 0007900 0007900 0001498 0000003 0007901 0007901 0001501 0000003 0007902 0007902 0001504 0000003 "
       \o "0007903 0007903 0001507 0000003 0007904 0007904 0001510 0000003 0007905 0007905 0001513 0000003 0007906 0007906 0001516 0000003 0007907 0007907 0001519 0000003 0007908 0007908 0001522 0000002 0007909 0007909 0001524 0000002 0007910 0007910 0001526 0000002 0007911 0007911 0001528 0000002 0007912 0007912 0001530 0000003 0007913 0007913 0001533 0000003 0007914 0007914 0001536 0000003 0007915 0007915 0001539 0000003 0007916 0007916 0001542 0000003 0007917 0007917 0001545 0000003 0007918 0007918 0001548 0000003 0007919 0007919 0001551 0000003 0007920 0007920 0001554 0000003 0007921 0007921 0001557 0000003 0007922 0007922 0001560 0000002 0007923 0007923 0001562 0000002 0007924 0007924 0001564 0000002 0007925 0007925 0001566 0000002 0007926 0007926 0001568 0000002 0007927 0007927 0001570 0000002 0007928 0007928 0001572 0000002 0007929 0007929 0001574 0000002 0007936 0007937 0001576 0000002 0007938 0007938 0001578 0000003 0007939 0007939 0001581 0000003 "
       \o "0007940 0007940 0001584 0000003 0007941 0007941 0001587 0000003 0007942 0007942 0001590 0000003 0007943 0007943 0001593 0000003 0007944 0007945 0001596 0000002 0007946 0007946 0001598 0000003 0007947 0007947 0001601 0000003 0007948 0007948 0001604 0000003 0007949 0007949 0001607 0000003 0007950 0007950 0001610 0000003 0007951 0007951 0001613 0000003 0007952 0007953 0001616 0000002 0007954 0007954 0001618 0000003 0007955 0007955 0001621 0000003 0007956 0007956 0001624 0000003 0007957 0007957 0001627 0000003 0007960 0007961 0001630 0000002 0007962 0007962 0001632 0000003 0007963 0007963 0001635 0000003 0007964 0007964 0001638 0000003 0007965 0007965 0001641 0000003 0007968 0007969 0001644 0000002 0007970 0007970 0001646 0000003 0007971 0007971 0001649 0000003 0007972 0007972 0001652 0000003 0007973 0007973 0001655 0000003 0007974 0007974 0001658 0000003 0007975 0007975 0001661 0000003 0007976 0007977 0001664 0000002 0007978 0007978 0001666 0000003 "
       \o "0007979 0007979 0001669 0000003 0007980 0007980 0001672 0000003 0007981 0007981 0001675 0000003 0007982 0007982 0001678 0000003 0007983 0007983 0001681 0000003 0007984 0007985 0001684 0000002 0007986 0007986 0001686 0000003 0007987 0007987 0001689 0000003 0007988 0007988 0001692 0000003 0007989 0007989 0001695 0000003 0007990 0007990 0001698 0000003 0007991 0007991 0001701 0000003 0007992 0007993 0001704 0000002 0007994 0007994 0001706 0000003 0007995 0007995 0001709 0000003 0007996 0007996 0001712 0000003 0007997 0007997 0001715 0000003 0007998 0007998 0001718 0000003 0007999 0007999 0001721 0000003 0008000 0008001 0001724 0000002 0008002 0008002 0001726 0000003 0008003 0008003 0001729 0000003 0008004 0008004 0001732 0000003 0008005 0008005 0001735 0000003 0008008 0008009 0001738 0000002 0008010 0008010 0001740 0000003 0008011 0008011 0001743 0000003 0008012 0008012 0001746 0000003 0008013 0008013 0001749 0000003 0008016 0008017 0001752 0000002 "
       \o "0008018 0008018 0001754 0000003 0008019 0008019 0001757 0000003 0008020 0008020 0001760 0000003 0008021 0008021 0001763 0000003 0008022 0008022 0001766 0000003 0008023 0008023 0001769 0000003 0008025 0008025 0001772 0000002 0008027 0008027 0001774 0000003 0008029 0008029 0001777 0000003 0008031 0008031 0001780 0000003 0008032 0008033 0001783 0000002 0008034 0008034 0001785 0000003 0008035 0008035 0001788 0000003 0008036 0008036 0001791 0000003 0008037 0008037 0001794 0000003 0008038 0008038 0001797 0000003 0008039 0008039 0001800 0000003 0008040 0008041 0001803 0000002 0008042 0008042 0001805 0000003 0008043 0008043 0001808 0000003 0008044 0008044 0001811 0000003 0008045 0008045 0001814 0000003 0008046 0008046 0001817 0000003 0008047 0008047 0001820 0000003 0008048 0008049 0001823 0000002 0008050 0008051 0001825 0000002 0008052 0008053 0001827 0000002 0008054 0008055 0001829 0000002 0008056 0008057 0001831 0000002 0008058 0008059 0001833 0000002 "
       \o "0008060 0008061 0001835 0000002 0008064 0008064 0001837 0000003 0008065 0008065 0001840 0000003 0008066 0008066 0001843 0000004 0008067 0008067 0001847 0000004 0008068 0008068 0001851 0000004 0008069 0008069 0001855 0000004 0008070 0008070 0001859 0000004 0008071 0008071 0001863 0000004 0008072 0008072 0001867 0000003 0008073 0008073 0001870 0000003 0008074 0008074 0001873 0000004 0008075 0008075 0001877 0000004 0008076 0008076 0001881 0000004 0008077 0008077 0001885 0000004 0008078 0008078 0001889 0000004 0008079 0008079 0001893 0000004 0008080 0008080 0001897 0000003 0008081 0008081 0001900 0000003 0008082 0008082 0001903 0000004 0008083 0008083 0001907 0000004 0008084 0008084 0001911 0000004 0008085 0008085 0001915 0000004 0008086 0008086 0001919 0000004 0008087 0008087 0001923 0000004 0008088 0008088 0001927 0000003 0008089 0008089 0001930 0000003 0008090 0008090 0001933 0000004 0008091 0008091 0001937 0000004 0008092 0008092 0001941 0000004 "
       \o "0008093 0008093 0001945 0000004 0008094 0008094 0001949 0000004 0008095 0008095 0001953 0000004 0008096 0008096 0001957 0000003 0008097 0008097 0001960 0000003 0008098 0008098 0001963 0000004 0008099 0008099 0001967 0000004 0008100 0008100 0001971 0000004 0008101 0008101 0001975 0000004 0008102 0008102 0001979 0000004 0008103 0008103 0001983 0000004 0008104 0008104 0001987 0000003 0008105 0008105 0001990 0000003 0008106 0008106 0001993 0000004 0008107 0008107 0001997 0000004 0008108 0008108 0002001 0000004 0008109 0008109 0002005 0000004 0008110 0008110 0002009 0000004 0008111 0008111 0002013 0000004 0008112 0008112 0002017 0000002 0008113 0008113 0002019 0000002 0008114 0008114 0002021 0000003 0008115 0008115 0002024 0000002 0008116 0008116 0002026 0000003 0008118 0008118 0002029 0000002 0008119 0008119 0002031 0000003 0008120 0008120 0002034 0000002 0008121 0008121 0002036 0000002 0008122 0008123 0002038 0000002 0008124 0008124 0002040 0000002 "
       \o "0008125 0008125 0002042 0000002 0008126 0008126 0002044 0000001 0008127 0008127 0002045 0000002 0008128 0008128 0002047 0000002 0008129 0008129 0002049 0000003 0008130 0008130 0002052 0000003 0008131 0008131 0002055 0000002 0008132 0008132 0002057 0000003 0008134 0008134 0002060 0000002 0008135 0008135 0002062 0000003 0008136 0008137 0002065 0000002 0008138 0008139 0002067 0000002 0008140 0008140 0002069 0000002 0008141 0008142 0002071 0000003 0008143 0008143 0002074 0000003 0008144 0008144 0002077 0000002 0008145 0008145 0002079 0000002 0008146 0008147 0002081 0000003 0008150 0008150 0002084 0000002 0008151 0008151 0002086 0000003 0008152 0008152 0002089 0000002 0008153 0008153 0002091 0000002 0008154 0008155 0002093 0000002 0008157 0008158 0002095 0000003 0008159 0008159 0002098 0000003 0008160 0008160 0002101 0000002 0008161 0008161 0002103 0000002 0008162 0008163 0002105 0000003 0008164 0008165 0002108 0000002 0008166 0008166 0002110 0000002 "
       \o "0008167 0008167 0002112 0000003 0008168 0008168 0002115 0000002 0008169 0008169 0002117 0000002 0008170 0008171 0002119 0000002 0008172 0008172 0002121 0000002 0008173 0008174 0002123 0000003 0008175 0008175 0002126 0000001 0008178 0008178 0002127 0000003 0008179 0008179 0002130 0000002 0008180 0008180 0002132 0000003 0008182 0008182 0002135 0000002 0008183 0008183 0002137 0000003 0008184 0008185 0002140 0000002 0008186 0008187 0002142 0000002 0008188 0008188 0002144 0000002 0008189 0008189 0002146 0000002 0008190 0008190 0002148 0000002 0008192 0008192 0002150 0000001 0008193 0008193 0002151 0000001 0008194 0008194 0002152 0000001 0008195 0008195 0002153 0000001 0008196 0008196 0002154 0000001 0008197 0008197 0002155 0000001 0008198 0008198 0002156 0000001 0008199 0008199 0002157 0000001 0008200 0008200 0002158 0000001 0008201 0008201 0002159 0000001 0008202 0008202 0002160 0000001 0008209 0008209 0002161 0000001 0008215 0008215 0002162 0000002 "
       \o "0008228 0008228 0002164 0000001 0008229 0008229 0002165 0000002 0008230 0008230 0002167 0000003 0008239 0008239 0002170 0000001 0008243 0008243 0002171 0000002 0008244 0008244 0002173 0000003 0008246 0008246 0002176 0000002 0008247 0008247 0002178 0000003 0008252 0008252 0002181 0000002 0008254 0008254 0002183 0000002 0008263 0008263 0002185 0000002 0008264 0008264 0002187 0000002 0008265 0008265 0002189 0000002 0008279 0008279 0002191 0000004 0008287 0008287 0002195 0000001 0008304 0008304 0002196 0000001 0008305 0008305 0002197 0000001 0008308 0008313 0002198 0000001 0008314 0008314 0002199 0000001 0008315 0008315 0002200 0000001 0008316 0008316 0002201 0000001 0008317 0008318 0002202 0000001 0008319 0008319 0002203 0000001 0008320 0008329 0002204 0000001 0008330 0008330 0002205 0000001 0008331 0008331 0002206 0000001 0008332 0008332 0002207 0000001 0008333 0008334 0002208 0000001 0008336 0008336 0002209 0000001 0008337 0008337 0002210 0000001 "
       \o "0008338 0008338 0002211 0000001 0008339 0008339 0002212 0000001 0008340 0008340 0002213 0000001 0008341 0008341 0002214 0000001 0008342 0008345 0002215 0000001 0008346 0008346 0002216 0000001 0008347 0008348 0002217 0000001 0008360 0008360 0002218 0000002 0008448 0008448 0002220 0000003 0008449 0008449 0002223 0000003 0008450 0008450 0002226 0000001 0008451 0008451 0002227 0000002 0008453 0008453 0002229 0000003 0008454 0008454 0002232 0000003 0008455 0008455 0002235 0000001 0008457 0008457 0002236 0000002 0008458 0008458 0002238 0000001 0008459 0008459 0002239 0000001 0008460 0008460 0002240 0000001 0008461 0008461 0002241 0000001 0008462 0008462 0002242 0000001 0008463 0008463 0002243 0000001 0008464 0008464 0002244 0000001 0008465 0008465 0002245 0000001 0008466 0008466 0002246 0000001 0008467 0008467 0002247 0000001 0008469 0008469 0002248 0000001 0008470 0008470 0002249 0000002 0008473 0008475 0002251 0000001 0008476 0008476 0002252 0000001 "
       \o "0008477 0008477 0002253 0000001 0008480 0008480 0002254 0000002 0008481 0008481 0002256 0000003 0008482 0008482 0002259 0000002 0008484 0008484 0002261 0000001 0008486 0008486 0002262 0000001 0008488 0008488 0002263 0000001 0008490 0008490 0002264 0000001 0008491 0008491 0002265 0000002 0008492 0008493 0002267 0000001 0008495 0008495 0002268 0000001 0008496 0008497 0002269 0000001 0008499 0008499 0002270 0000001 0008500 0008500 0002271 0000001 0008501 0008504 0002272 0000001 0008505 0008505 0002273 0000001 0008507 0008507 0002274 0000003 0008508 0008508 0002277 0000001 0008509 0008509 0002278 0000001 0008510 0008510 0002279 0000001 0008511 0008511 0002280 0000001 0008512 0008512 0002281 0000001 0008517 0008517 0002282 0000001 0008518 0008519 0002283 0000001 0008520 0008521 0002284 0000001 0008528 0008528 0002285 0000003 0008529 0008529 0002288 0000003 0008530 0008530 0002291 0000004 0008531 0008531 0002295 0000003 0008532 0008532 0002298 0000003 "
       \o "0008533 0008533 0002301 0000003 0008534 0008534 0002304 0000003 0008535 0008535 0002307 0000003 0008536 0008536 0002310 0000003 0008537 0008537 0002313 0000003 0008538 0008538 0002316 0000003 0008539 0008539 0002319 0000003 0008540 0008540 0002322 0000003 0008541 0008541 0002325 0000003 0008542 0008542 0002328 0000003 0008543 0008543 0002331 0000002 0008544 0008544 0002333 0000001 0008545 0008545 0002334 0000002 0008546 0008546 0002336 0000003 0008547 0008547 0002339 0000002 0008548 0008548 0002341 0000001 0008549 0008549 0002342 0000002 0008550 0008550 0002344 0000003 0008551 0008551 0002347 0000004 0008552 0008552 0002351 0000002 0008553 0008553 0002353 0000001 0008554 0008554 0002354 0000002 0008555 0008555 0002356 0000003 0008556 0008556 0002359 0000001 0008557 0008558 0002360 0000001 0008559 0008559 0002361 0000001 0008560 0008560 0002362 0000001 0008561 0008561 0002363 0000002 0008562 0008562 0002365 0000003 0008563 0008563 0002368 0000002 "
       \o "0008564 0008564 0002370 0000001 0008565 0008565 0002371 0000002 0008566 0008566 0002373 0000003 0008567 0008567 0002376 0000004 0008568 0008568 0002380 0000002 0008569 0008569 0002382 0000001 0008570 0008570 0002383 0000002 0008571 0008571 0002385 0000003 0008572 0008572 0002388 0000001 0008573 0008574 0002389 0000001 0008575 0008575 0002390 0000001 0008585 0008585 0002391 0000003 0008602 0008602 0002394 0000002 0008603 0008603 0002396 0000002 0008622 0008622 0002398 0000002 0008653 0008653 0002400 0000002 0008654 0008654 0002402 0000002 0008655 0008655 0002404 0000002 0008708 0008708 0002406 0000002 0008713 0008713 0002408 0000002 0008716 0008716 0002410 0000002 0008740 0008740 0002412 0000002 0008742 0008742 0002414 0000002 0008748 0008748 0002416 0000002 0008749 0008749 0002418 0000003 0008751 0008751 0002421 0000002 0008752 0008752 0002423 0000003 0008769 0008769 0002426 0000002 0008772 0008772 0002428 0000002 0008775 0008775 0002430 0000002 "
       \o "0008777 0008777 0002432 0000002 0008800 0008800 0002434 0000002 0008802 0008802 0002436 0000002 0008813 0008813 0002438 0000002 0008814 0008814 0002440 0000002 0008815 0008815 0002442 0000002 0008816 0008816 0002444 0000002 0008817 0008817 0002446 0000002 0008820 0008820 0002448 0000002 0008821 0008821 0002450 0000002 0008824 0008824 0002452 0000002 0008825 0008825 0002454 0000002 0008832 0008832 0002456 0000002 0008833 0008833 0002458 0000002 0008836 0008836 0002460 0000002 0008837 0008837 0002462 0000002 0008840 0008840 0002464 0000002 0008841 0008841 0002466 0000002 0008876 0008876 0002468 0000002 0008877 0008877 0002470 0000002 0008878 0008878 0002472 0000002 0008879 0008879 0002474 0000002 0008928 0008928 0002476 0000002 0008929 0008929 0002478 0000002 0008930 0008930 0002480 0000002 0008931 0008931 0002482 0000002 0008938 0008938 0002484 0000002 0008939 0008939 0002486 0000002 0008940 0008940 0002488 0000002 0008941 0008941 0002490 0000002 "
       \o "0009001 0009002 0002492 0000001 0009312 0009320 0002493 0000001 0009321 0009330 0002494 0000002 0009331 0009331 0002496 0000002 0009332 0009332 0002498 0000003 0009333 0009333 0002501 0000003 0009334 0009334 0002504 0000003 0009335 0009335 0002507 0000003 0009336 0009336 0002510 0000003 0009337 0009337 0002513 0000003 0009338 0009338 0002516 0000003 0009339 0009339 0002519 0000003 0009340 0009340 0002522 0000003 0009341 0009341 0002525 0000004 0009342 0009342 0002529 0000004 0009343 0009343 0002533 0000004 0009344 0009344 0002537 0000004 0009345 0009345 0002541 0000004 0009346 0009346 0002545 0000004 0009347 0009347 0002549 0000004 0009348 0009348 0002553 0000004 0009349 0009349 0002557 0000004 0009350 0009350 0002561 0000004 0009351 0009351 0002565 0000004 0009352 0009352 0002569 0000002 0009353 0009353 0002571 0000002 0009354 0009354 0002573 0000002 0009355 0009355 0002575 0000002 0009356 0009356 0002577 0000002 0009357 0009357 0002579 0000002 "
       \o "0009358 0009358 0002581 0000002 0009359 0009359 0002583 0000002 0009360 0009360 0002585 0000002 0009361 0009361 0002587 0000003 0009362 0009362 0002590 0000003 0009363 0009363 0002593 0000003 0009364 0009364 0002596 0000003 0009365 0009365 0002599 0000003 0009366 0009366 0002602 0000003 0009367 0009367 0002605 0000003 0009368 0009368 0002608 0000003 0009369 0009369 0002611 0000003 0009370 0009370 0002614 0000003 0009371 0009371 0002617 0000003 0009372 0009372 0002620 0000003 0009373 0009373 0002623 0000003 0009374 0009374 0002626 0000003 0009375 0009375 0002629 0000003 0009376 0009376 0002632 0000003 0009377 0009377 0002635 0000003 0009378 0009378 0002638 0000003 0009379 0009379 0002641 0000003 0009380 0009380 0002644 0000003 0009381 0009381 0002647 0000003 0009382 0009382 0002650 0000003 0009383 0009383 0002653 0000003 0009384 0009384 0002656 0000003 0009385 0009385 0002659 0000003 0009386 0009386 0002662 0000003 0009387 0009387 0002665 0000003 "
       \o "0009388 0009388 0002668 0000003 0009389 0009389 0002671 0000003 0009390 0009390 0002674 0000003 0009391 0009391 0002677 0000003 0009392 0009392 0002680 0000003 0009393 0009393 0002683 0000003 0009394 0009394 0002686 0000003 0009395 0009395 0002689 0000003 0009396 0009396 0002692 0000003 0009397 0009397 0002695 0000003 0009398 0009423 0002698 0000001 0009424 0009449 0002699 0000001 0009450 0009450 0002700 0000001 0010764 0010764 0002701 0000004 0010868 0010868 0002705 0000003 0010869 0010869 0002708 0000002 0010870 0010870 0002710 0000003 0010972 0010972 0002713 0000002 0011388 0011388 0002715 0000001 0011389 0011389 0002716 0000001 0011631 0011631 0002717 0000001 0011935 0011935 0002718 0000001 0012019 0012019 0002719 0000001 0012032 0012032 0002720 0000001 0012033 0012033 0002721 0000001 0012034 0012034 0002722 0000001 0012035 0012035 0002723 0000001 0012036 0012036 0002724 0000001 0012037 0012037 0002725 0000001 0012038 0012038 0002726 0000001 "
       \o "0012039 0012039 0002727 0000001 0012040 0012040 0002728 0000001 0012041 0012041 0002729 0000001 0012042 0012042 0002730 0000001 0012043 0012043 0002731 0000001 0012044 0012044 0002732 0000001 0012045 0012045 0002733 0000001 0012046 0012046 0002734 0000001 0012047 0012047 0002735 0000001 0012048 0012048 0002736 0000001 0012049 0012049 0002737 0000001 0012050 0012050 0002738 0000001 0012051 0012051 0002739 0000001 0012052 0012052 0002740 0000001 0012053 0012053 0002741 0000001 0012054 0012054 0002742 0000001 0012055 0012055 0002743 0000001 0012056 0012056 0002744 0000001 0012057 0012057 0002745 0000001 0012058 0012058 0002746 0000001 0012059 0012059 0002747 0000001 0012060 0012060 0002748 0000001 0012061 0012061 0002749 0000001 0012062 0012062 0002750 0000001 0012063 0012063 0002751 0000001 0012064 0012064 0002752 0000001 0012065 0012065 0002753 0000001 0012066 0012066 0002754 0000001 0012067 0012067 0002755 0000001 0012068 0012068 0002756 0000001 "
       \o "0012069 0012069 0002757 0000001 0012070 0012070 0002758 0000001 0012071 0012071 0002759 0000001 0012072 0012072 0002760 0000001 0012073 0012073 0002761 0000001 0012074 0012074 0002762 0000001 0012075 0012075 0002763 0000001 0012076 0012076 0002764 0000001 0012077 0012077 0002765 0000001 0012078 0012078 0002766 0000001 0012079 0012079 0002767 0000001 0012080 0012080 0002768 0000001 0012081 0012081 0002769 0000001 0012082 0012082 0002770 0000001 0012083 0012083 0002771 0000001 0012084 0012084 0002772 0000001 0012085 0012085 0002773 0000001 0012086 0012086 0002774 0000001 0012087 0012087 0002775 0000001 0012088 0012088 0002776 0000001 0012089 0012089 0002777 0000001 0012090 0012090 0002778 0000001 0012091 0012091 0002779 0000001 0012092 0012092 0002780 0000001 0012093 0012093 0002781 0000001 0012094 0012094 0002782 0000001 0012095 0012095 0002783 0000001 0012096 0012096 0002784 0000001 0012097 0012097 0002785 0000001 0012098 0012098 0002786 0000001 "
       \o "0012099 0012099 0002787 0000001 0012100 0012100 0002788 0000001 0012101 0012101 0002789 0000001 0012102 0012102 0002790 0000001 0012103 0012103 0002791 0000001 0012104 0012104 0002792 0000001 0012105 0012105 0002793 0000001 0012106 0012106 0002794 0000001 0012107 0012107 0002795 0000001 0012108 0012108 0002796 0000001 0012109 0012109 0002797 0000001 0012110 0012110 0002798 0000001 0012111 0012111 0002799 0000001 0012112 0012112 0002800 0000001 0012113 0012113 0002801 0000001 0012114 0012114 0002802 0000001 0012115 0012115 0002803 0000001 0012116 0012116 0002804 0000001 0012117 0012117 0002805 0000001 0012118 0012118 0002806 0000001 0012119 0012119 0002807 0000001 0012120 0012120 0002808 0000001 0012121 0012121 0002809 0000001 0012122 0012122 0002810 0000001 0012123 0012123 0002811 0000001 0012124 0012124 0002812 0000001 0012125 0012125 0002813 0000001 0012126 0012126 0002814 0000001 0012127 0012127 0002815 0000001 0012128 0012128 0002816 0000001 "
       \o "0012129 0012129 0002817 0000001 0012130 0012130 0002818 0000001 0012131 0012131 0002819 0000001 0012132 0012132 0002820 0000001 0012133 0012133 0002821 0000001 0012134 0012134 0002822 0000001 0012135 0012135 0002823 0000001 0012136 0012136 0002824 0000001 0012137 0012137 0002825 0000001 0012138 0012138 0002826 0000001 0012139 0012139 0002827 0000001 0012140 0012140 0002828 0000001 0012141 0012141 0002829 0000001 0012142 0012142 0002830 0000001 0012143 0012143 0002831 0000001 0012144 0012144 0002832 0000001 0012145 0012145 0002833 0000001 0012146 0012146 0002834 0000001 0012147 0012147 0002835 0000001 0012148 0012148 0002836 0000001 0012149 0012149 0002837 0000001 0012150 0012150 0002838 0000001 0012151 0012151 0002839 0000001 0012152 0012152 0002840 0000001 0012153 0012153 0002841 0000001 0012154 0012154 0002842 0000001 0012155 0012155 0002843 0000001 0012156 0012156 0002844 0000001 0012157 0012157 0002845 0000001 0012158 0012158 0002846 0000001 "
       \o "0012159 0012159 0002847 0000001 0012160 0012160 0002848 0000001 0012161 0012161 0002849 0000001 0012162 0012162 0002850 0000001 0012163 0012163 0002851 0000001 0012164 0012164 0002852 0000001 0012165 0012165 0002853 0000001 0012166 0012166 0002854 0000001 0012167 0012167 0002855 0000001 0012168 0012168 0002856 0000001 0012169 0012169 0002857 0000001 0012170 0012170 0002858 0000001 0012171 0012171 0002859 0000001 0012172 0012172 0002860 0000001 0012173 0012173 0002861 0000001 0012174 0012174 0002862 0000001 0012175 0012175 0002863 0000001 0012176 0012176 0002864 0000001 0012177 0012177 0002865 0000001 0012178 0012178 0002866 0000001 0012179 0012179 0002867 0000001 0012180 0012180 0002868 0000001 0012181 0012181 0002869 0000001 0012182 0012182 0002870 0000001 0012183 0012183 0002871 0000001 0012184 0012184 0002872 0000001 0012185 0012185 0002873 0000001 0012186 0012186 0002874 0000001 0012187 0012187 0002875 0000001 0012188 0012188 0002876 0000001 "
       \o "0012189 0012189 0002877 0000001 0012190 0012190 0002878 0000001 0012191 0012191 0002879 0000001 0012192 0012192 0002880 0000001 0012193 0012193 0002881 0000001 0012194 0012194 0002882 0000001 0012195 0012195 0002883 0000001 0012196 0012196 0002884 0000001 0012197 0012197 0002885 0000001 0012198 0012198 0002886 0000001 0012199 0012199 0002887 0000001 0012200 0012200 0002888 0000001 0012201 0012201 0002889 0000001 0012202 0012202 0002890 0000001 0012203 0012203 0002891 0000001 0012204 0012204 0002892 0000001 0012205 0012205 0002893 0000001 0012206 0012206 0002894 0000001 0012207 0012207 0002895 0000001 0012208 0012208 0002896 0000001 0012209 0012209 0002897 0000001 0012210 0012210 0002898 0000001 0012211 0012211 0002899 0000001 0012212 0012212 0002900 0000001 0012213 0012213 0002901 0000001 0012214 0012214 0002902 0000001 0012215 0012215 0002903 0000001 0012216 0012216 0002904 0000001 0012217 0012217 0002905 0000001 0012218 0012218 0002906 0000001 "
       \o "0012219 0012219 0002907 0000001 0012220 0012220 0002908 0000001 0012221 0012221 0002909 0000001 0012222 0012222 0002910 0000001 0012223 0012223 0002911 0000001 0012224 0012224 0002912 0000001 0012225 0012225 0002913 0000001 0012226 0012226 0002914 0000001 0012227 0012227 0002915 0000001 0012228 0012228 0002916 0000001 0012229 0012229 0002917 0000001 0012230 0012230 0002918 0000001 0012231 0012231 0002919 0000001 0012232 0012232 0002920 0000001 0012233 0012233 0002921 0000001 0012234 0012234 0002922 0000001 0012235 0012235 0002923 0000001 0012236 0012236 0002924 0000001 0012237 0012237 0002925 0000001 0012238 0012238 0002926 0000001 0012239 0012239 0002927 0000001 0012240 0012240 0002928 0000001 0012241 0012241 0002929 0000001 0012242 0012242 0002930 0000001 0012243 0012243 0002931 0000001 0012244 0012244 0002932 0000001 0012245 0012245 0002933 0000001 0012288 0012288 0002934 0000001 0012342 0012342 0002935 0000001 0012344 0012344 0002936 0000001 "
       \o "0012345 0012346 0002937 0000001 0012364 0012364 0002938 0000002 0012366 0012366 0002940 0000002 0012368 0012368 0002942 0000002 0012370 0012370 0002944 0000002 0012372 0012372 0002946 0000002 0012374 0012374 0002948 0000002 0012376 0012376 0002950 0000002 0012378 0012378 0002952 0000002 0012380 0012380 0002954 0000002 0012382 0012382 0002956 0000002 0012384 0012384 0002958 0000002 0012386 0012386 0002960 0000002 0012389 0012389 0002962 0000002 0012391 0012391 0002964 0000002 0012393 0012393 0002966 0000002 0012400 0012401 0002968 0000002 0012403 0012404 0002970 0000002 0012406 0012407 0002972 0000002 0012409 0012410 0002974 0000002 0012412 0012413 0002976 0000002 0012436 0012436 0002978 0000002 0012443 0012444 0002980 0000002 0012446 0012446 0002982 0000002 0012447 0012447 0002984 0000002 0012460 0012460 0002986 0000002 0012462 0012462 0002988 0000002 0012464 0012464 0002990 0000002 0012466 0012466 0002992 0000002 0012468 0012468 0002994 0000002 "
       \o "0012470 0012470 0002996 0000002 0012472 0012472 0002998 0000002 0012474 0012474 0003000 0000002 0012476 0012476 0003002 0000002 0012478 0012478 0003004 0000002 0012480 0012480 0003006 0000002 0012482 0012482 0003008 0000002 0012485 0012485 0003010 0000002 0012487 0012487 0003012 0000002 0012489 0012489 0003014 0000002 0012496 0012497 0003016 0000002 0012499 0012500 0003018 0000002 0012502 0012503 0003020 0000002 0012505 0012506 0003022 0000002 0012508 0012509 0003024 0000002 0012532 0012532 0003026 0000002 0012535 0012535 0003028 0000002 0012536 0012536 0003030 0000002 0012537 0012537 0003032 0000002 0012538 0012538 0003034 0000002 0012542 0012542 0003036 0000002 0012543 0012543 0003038 0000002 0012593 0012594 0003040 0000001 0012595 0012595 0003041 0000001 0012596 0012596 0003042 0000001 0012597 0012598 0003043 0000001 0012599 0012601 0003044 0000001 0012602 0012607 0003045 0000001 0012608 0012608 0003046 0000001 0012609 0012611 0003047 0000001 "
       \o "0012612 0012612 0003048 0000001 0012613 0012622 0003049 0000001 0012623 0012643 0003050 0000001 0012644 0012644 0003051 0000001 0012645 0012646 0003052 0000001 0012647 0012648 0003053 0000001 0012649 0012649 0003054 0000001 0012650 0012650 0003055 0000001 0012651 0012651 0003056 0000001 0012652 0012652 0003057 0000001 0012653 0012653 0003058 0000001 0012654 0012654 0003059 0000001 0012655 0012655 0003060 0000001 0012656 0012656 0003061 0000001 0012657 0012658 0003062 0000001 0012659 0012659 0003063 0000001 0012660 0012661 0003064 0000001 0012662 0012662 0003065 0000001 0012663 0012663 0003066 0000001 0012664 0012668 0003067 0000001 0012669 0012669 0003068 0000001 0012670 0012670 0003069 0000001 0012671 0012671 0003070 0000001 0012672 0012672 0003071 0000001 0012673 0012673 0003072 0000001 0012674 0012675 0003073 0000001 0012676 0012678 0003074 0000001 0012679 0012680 0003075 0000001 0012681 0012681 0003076 0000001 0012682 0012683 0003077 0000001 "
       \o "0012684 0012684 0003078 0000001 0012685 0012685 0003079 0000001 0012686 0012686 0003080 0000001 0012690 0012690 0003081 0000001 0012691 0012691 0003082 0000001 0012692 0012692 0003083 0000001 0012693 0012693 0003084 0000001 0012694 0012694 0003085 0000001 0012695 0012695 0003086 0000001 0012696 0012696 0003087 0000001 0012697 0012697 0003088 0000001 0012698 0012698 0003089 0000001 0012699 0012699 0003090 0000001 0012700 0012700 0003091 0000001 0012701 0012701 0003092 0000001 0012702 0012702 0003093 0000001 0012703 0012703 0003094 0000001 0012800 0012800 0003095 0000003 0012801 0012801 0003098 0000003 0012802 0012802 0003101 0000003 0012803 0012803 0003104 0000003 0012804 0012804 0003107 0000003 0012805 0012805 0003110 0000003 0012806 0012806 0003113 0000003 0012807 0012807 0003116 0000003 0012808 0012808 0003119 0000003 0012809 0012809 0003122 0000003 0012810 0012810 0003125 0000003 0012811 0012811 0003128 0000003 0012812 0012812 0003131 0000003 "
       \o "0012813 0012813 0003134 0000003 0012814 0012814 0003137 0000004 0012815 0012815 0003141 0000004 0012816 0012816 0003145 0000004 0012817 0012817 0003149 0000004 0012818 0012818 0003153 0000004 0012819 0012819 0003157 0000004 0012820 0012820 0003161 0000004 0012821 0012821 0003165 0000004 0012822 0012822 0003169 0000004 0012823 0012823 0003173 0000004 0012824 0012824 0003177 0000004 0012825 0012825 0003181 0000004 0012826 0012826 0003185 0000004 0012827 0012827 0003189 0000004 0012828 0012828 0003193 0000004 0012829 0012829 0003197 0000007 0012830 0012830 0003204 0000006 0012832 0012832 0003210 0000003 0012833 0012833 0003213 0000003 0012834 0012834 0003216 0000003 0012835 0012835 0003219 0000003 0012836 0012836 0003222 0000003 0012837 0012837 0003225 0000003 0012838 0012838 0003228 0000003 0012839 0012839 0003231 0000003 0012840 0012840 0003234 0000003 0012841 0012841 0003237 0000003 0012842 0012842 0003240 0000003 0012843 0012843 0003243 0000003 "
       \o "0012844 0012844 0003246 0000003 0012845 0012845 0003249 0000003 0012846 0012846 0003252 0000003 0012847 0012847 0003255 0000003 0012848 0012848 0003258 0000003 0012849 0012849 0003261 0000003 0012850 0012850 0003264 0000003 0012851 0012851 0003267 0000003 0012852 0012852 0003270 0000003 0012853 0012853 0003273 0000003 0012854 0012854 0003276 0000003 0012855 0012855 0003279 0000003 0012856 0012856 0003282 0000003 0012857 0012857 0003285 0000003 0012858 0012858 0003288 0000003 0012859 0012859 0003291 0000003 0012860 0012860 0003294 0000003 0012861 0012861 0003297 0000003 0012862 0012862 0003300 0000003 0012863 0012863 0003303 0000003 0012864 0012864 0003306 0000003 0012865 0012865 0003309 0000003 0012866 0012866 0003312 0000003 0012867 0012867 0003315 0000003 0012868 0012868 0003318 0000001 0012869 0012869 0003319 0000001 0012870 0012870 0003320 0000001 0012871 0012871 0003321 0000001 0012880 0012880 0003322 0000003 0012881 0012889 0003325 0000002 "
       \o "0012890 0012895 0003327 0000002 0012896 0012896 0003329 0000001 0012897 0012898 0003330 0000001 0012899 0012901 0003331 0000001 0012902 0012902 0003332 0000001 0012903 0012904 0003333 0000001 0012905 0012909 0003334 0000001 0012910 0012910 0003335 0000002 0012911 0012911 0003337 0000002 0012912 0012912 0003339 0000002 0012913 0012913 0003341 0000002 0012914 0012914 0003343 0000002 0012915 0012915 0003345 0000002 0012916 0012916 0003347 0000002 0012917 0012917 0003349 0000002 0012918 0012918 0003351 0000002 0012919 0012919 0003353 0000002 0012920 0012920 0003355 0000002 0012921 0012921 0003357 0000002 0012922 0012922 0003359 0000002 0012923 0012923 0003361 0000002 0012924 0012924 0003363 0000005 0012925 0012925 0003368 0000004 0012926 0012926 0003372 0000002 0012928 0012928 0003374 0000001 0012929 0012929 0003375 0000001 0012930 0012930 0003376 0000001 0012931 0012931 0003377 0000001 0012932 0012932 0003378 0000001 0012933 0012933 0003379 0000001 "
       \o "0012934 0012934 0003380 0000001 0012935 0012935 0003381 0000001 0012936 0012936 0003382 0000001 0012937 0012937 0003383 0000001 0012938 0012938 0003384 0000001 0012939 0012939 0003385 0000001 0012940 0012940 0003386 0000001 0012941 0012941 0003387 0000001 0012942 0012942 0003388 0000001 0012943 0012943 0003389 0000001 0012944 0012944 0003390 0000001 0012945 0012945 0003391 0000001 0012946 0012946 0003392 0000001 0012947 0012947 0003393 0000001 0012948 0012948 0003394 0000001 0012949 0012949 0003395 0000001 0012950 0012950 0003396 0000001 0012951 0012951 0003397 0000001 0012952 0012952 0003398 0000001 0012953 0012953 0003399 0000001 0012954 0012954 0003400 0000001 0012955 0012955 0003401 0000001 0012956 0012956 0003402 0000001 0012957 0012957 0003403 0000001 0012958 0012958 0003404 0000001 0012959 0012959 0003405 0000001 0012960 0012960 0003406 0000001 0012961 0012961 0003407 0000001 0012962 0012962 0003408 0000001 0012963 0012963 0003409 0000001 "
       \o "0012964 0012964 0003410 0000001 0012965 0012965 0003411 0000001 0012966 0012966 0003412 0000001 0012967 0012967 0003413 0000001 0012968 0012968 0003414 0000001 0012969 0012969 0003415 0000001 0012970 0012970 0003416 0000001 0012971 0012971 0003417 0000001 0012972 0012972 0003418 0000001 0012973 0012973 0003419 0000001 0012974 0012974 0003420 0000001 0012975 0012975 0003421 0000001 0012976 0012976 0003422 0000001 0012977 0012980 0003423 0000002 0012981 0012990 0003425 0000002 0012991 0012991 0003427 0000002 0012992 0012992 0003429 0000002 0012993 0012993 0003431 0000002 0012994 0012994 0003433 0000002 0012995 0012995 0003435 0000002 0012996 0012996 0003437 0000002 0012997 0012997 0003439 0000002 0012998 0012998 0003441 0000002 0012999 0012999 0003443 0000002 0013000 0013000 0003445 0000002 0013001 0013001 0003447 0000003 0013002 0013002 0003450 0000003 0013003 0013003 0003453 0000003 0013004 0013004 0003456 0000002 0013005 0013005 0003458 0000003 "
       \o "0013006 0013006 0003461 0000002 0013007 0013007 0003463 0000003 0013008 0013008 0003466 0000001 0013009 0013009 0003467 0000001 0013010 0013010 0003468 0000001 0013011 0013011 0003469 0000001 0013012 0013013 0003470 0000001 0013014 0013014 0003471 0000001 0013015 0013015 0003472 0000001 0013016 0013016 0003473 0000001 0013017 0013017 0003474 0000001 0013018 0013018 0003475 0000001 0013019 0013019 0003476 0000001 0013020 0013020 0003477 0000001 0013021 0013021 0003478 0000001 0013022 0013022 0003479 0000001 0013023 0013023 0003480 0000001 0013024 0013024 0003481 0000001 0013025 0013025 0003482 0000001 0013026 0013026 0003483 0000001 0013027 0013027 0003484 0000001 0013028 0013033 0003485 0000001 0013034 0013034 0003486 0000001 0013035 0013035 0003487 0000001 0013036 0013036 0003488 0000001 0013037 0013037 0003489 0000001 0013038 0013042 0003490 0000001 0013043 0013043 0003491 0000001 0013044 0013044 0003492 0000001 0013045 0013050 0003493 0000001 "
       \o "0013051 0013054 0003494 0000001 0013055 0013055 0003495 0000002 0013056 0013056 0003497 0000005 0013057 0013057 0003502 0000004 0013058 0013058 0003506 0000005 0013059 0013059 0003511 0000003 0013060 0013060 0003514 0000005 0013061 0013061 0003519 0000003 0013062 0013062 0003522 0000003 0013063 0013063 0003525 0000006 0013064 0013064 0003531 0000004 0013065 0013065 0003535 0000003 0013066 0013066 0003538 0000003 0013067 0013067 0003541 0000003 0013068 0013068 0003544 0000004 0013069 0013069 0003548 0000004 0013070 0013070 0003552 0000004 0013071 0013071 0003556 0000004 0013072 0013072 0003560 0000004 0013073 0013073 0003564 0000004 0013074 0013074 0003568 0000004 0013075 0013075 0003572 0000006 0013076 0013076 0003578 0000002 0013077 0013077 0003580 0000006 0013078 0013078 0003586 0000006 0013079 0013079 0003592 0000005 0013080 0013080 0003597 0000004 0013081 0013081 0003601 0000006 0013082 0013082 0003607 0000006 0013083 0013083 0003613 0000004 "
       \o "0013084 0013084 0003617 0000003 0013085 0013085 0003620 0000003 0013086 0013086 0003623 0000004 0013087 0013087 0003627 0000004 0013088 0013088 0003631 0000005 0013089 0013089 0003636 0000005 0013090 0013090 0003641 0000003 0013091 0013091 0003644 0000003 0013092 0013092 0003647 0000004 0013093 0013093 0003651 0000003 0013094 0013094 0003654 0000003 0013095 0013095 0003657 0000002 0013096 0013096 0003659 0000002 0013097 0013097 0003661 0000003 0013098 0013098 0003664 0000003 0013099 0013099 0003667 0000006 0013100 0013100 0003673 0000004 0013101 0013101 0003677 0000005 0013102 0013102 0003682 0000006 0013103 0013103 0003688 0000004 0013104 0013104 0003692 0000003 0013105 0013105 0003695 0000003 0013106 0013106 0003698 0000006 0013107 0013107 0003704 0000004 0013108 0013108 0003708 0000006 0013109 0013109 0003714 0000003 0013110 0013110 0003717 0000005 0013111 0013111 0003722 0000003 0013112 0013112 0003725 0000004 0013113 0013113 0003729 0000003 "
       \o "0013114 0013114 0003732 0000004 0013115 0013115 0003736 0000005 0013116 0013116 0003741 0000004 0013117 0013117 0003745 0000005 0013118 0013118 0003750 0000004 0013119 0013119 0003754 0000002 0013120 0013120 0003756 0000005 0013121 0013121 0003761 0000003 0013122 0013122 0003764 0000003 0013123 0013123 0003767 0000004 0013124 0013124 0003771 0000003 0013125 0013125 0003774 0000003 0013126 0013126 0003777 0000003 0013127 0013127 0003780 0000005 0013128 0013128 0003785 0000004 0013129 0013129 0003789 0000002 0013130 0013130 0003791 0000006 0013131 0013131 0003797 0000003 0013132 0013132 0003800 0000005 0013133 0013133 0003805 0000004 0013134 0013134 0003809 0000004 0013135 0013135 0003813 0000003 0013136 0013136 0003816 0000003 0013137 0013137 0003819 0000004 0013138 0013138 0003823 0000002 0013139 0013139 0003825 0000004 0013140 0013140 0003829 0000005 0013141 0013141 0003834 0000002 0013142 0013142 0003836 0000006 0013143 0013143 0003842 0000003 "
       \o "0013144 0013144 0003845 0000002 0013145 0013145 0003847 0000002 0013146 0013146 0003849 0000002 0013147 0013147 0003851 0000002 0013148 0013148 0003853 0000002 0013149 0013149 0003855 0000002 0013150 0013150 0003857 0000002 0013151 0013151 0003859 0000002 0013152 0013152 0003861 0000002 0013153 0013153 0003863 0000002 0013154 0013154 0003865 0000003 0013155 0013155 0003868 0000003 0013156 0013156 0003871 0000003 0013157 0013157 0003874 0000003 0013158 0013158 0003877 0000003 0013159 0013159 0003880 0000003 0013160 0013160 0003883 0000003 0013161 0013161 0003886 0000003 0013162 0013162 0003889 0000003 0013163 0013163 0003892 0000003 0013164 0013164 0003895 0000003 0013165 0013165 0003898 0000003 0013166 0013166 0003901 0000003 0013167 0013167 0003904 0000003 0013168 0013168 0003907 0000003 0013169 0013169 0003910 0000003 0013170 0013170 0003913 0000002 0013171 0013171 0003915 0000002 0013172 0013172 0003917 0000003 0013173 0013173 0003920 0000002 "
       \o "0013174 0013174 0003922 0000002 0013175 0013175 0003924 0000002 0013176 0013177 0003926 0000003 0013178 0013178 0003929 0000002 0013179 0013179 0003931 0000002 0013180 0013180 0003933 0000002 0013181 0013181 0003935 0000002 0013182 0013182 0003937 0000002 0013183 0013183 0003939 0000004 0013184 0013184 0003943 0000002 0013185 0013185 0003945 0000002 0013186 0013186 0003947 0000002 0013187 0013187 0003949 0000002 0013188 0013188 0003951 0000002 0013189 0013189 0003953 0000002 0013190 0013190 0003955 0000002 0013191 0013191 0003957 0000002 0013192 0013192 0003959 0000003 0013193 0013193 0003962 0000004 0013194 0013194 0003966 0000002 0013195 0013195 0003968 0000002 0013196 0013196 0003970 0000002 0013197 0013197 0003972 0000002 0013198 0013198 0003974 0000002 0013199 0013199 0003976 0000002 0013200 0013200 0003978 0000002 0013201 0013201 0003980 0000003 0013202 0013202 0003983 0000003 0013203 0013203 0003986 0000003 0013204 0013204 0003989 0000003 "
       \o "0013205 0013205 0003992 0000002 0013206 0013206 0003994 0000002 0013207 0013207 0003996 0000002 0013208 0013208 0003998 0000002 0013209 0013209 0004000 0000002 0013210 0013210 0004002 0000002 0013211 0013211 0004004 0000002 0013212 0013212 0004006 0000002 0013213 0013213 0004008 0000002 0013214 0013214 0004010 0000002 0013215 0013215 0004012 0000003 0013216 0013216 0004015 0000003 0013217 0013217 0004018 0000002 0013218 0013218 0004020 0000003 0013219 0013219 0004023 0000003 0013220 0013220 0004026 0000003 0013221 0013221 0004029 0000002 0013222 0013222 0004031 0000003 0013223 0013223 0004034 0000003 0013224 0013224 0004037 0000004 0013225 0013225 0004041 0000002 0013226 0013226 0004043 0000003 0013227 0013227 0004046 0000003 0013228 0013228 0004049 0000003 0013229 0013229 0004052 0000003 0013230 0013230 0004055 0000005 0013231 0013231 0004060 0000006 0013232 0013232 0004066 0000002 0013233 0013233 0004068 0000002 0013234 0013234 0004070 0000002 "
       \o "0013235 0013235 0004072 0000002 0013236 0013236 0004074 0000002 0013237 0013237 0004076 0000002 0013238 0013238 0004078 0000002 0013239 0013239 0004080 0000002 0013240 0013240 0004082 0000002 0013241 0013241 0004084 0000002 0013242 0013242 0004086 0000002 0013243 0013243 0004088 0000002 0013244 0013244 0004090 0000002 0013245 0013245 0004092 0000002 0013246 0013246 0004094 0000002 0013247 0013247 0004096 0000002 0013248 0013248 0004098 0000002 0013249 0013249 0004100 0000002 0013250 0013250 0004102 0000004 0013251 0013251 0004106 0000002 0013252 0013253 0004108 0000002 0013254 0013254 0004110 0000004 0013255 0013255 0004114 0000003 0013256 0013256 0004117 0000002 0013257 0013257 0004119 0000002 0013258 0013258 0004121 0000002 0013259 0013259 0004123 0000002 0013260 0013260 0004125 0000002 0013261 0013261 0004127 0000002 0013262 0013262 0004129 0000002 0013263 0013263 0004131 0000002 0013264 0013265 0004133 0000002 0013266 0013266 0004135 0000003 "
       \o "0013267 0013267 0004138 0000002 0013268 0013268 0004140 0000002 0013269 0013269 0004142 0000003 0013270 0013270 0004145 0000003 0013271 0013271 0004148 0000002 0013272 0013272 0004150 0000004 0013273 0013273 0004154 0000003 0013274 0013274 0004157 0000002 0013275 0013275 0004159 0000002 0013276 0013276 0004161 0000002 0013277 0013277 0004163 0000002 0013278 0013278 0004165 0000003 0013279 0013279 0004168 0000003 0013280 0013280 0004171 0000002 0013281 0013281 0004173 0000002 0013282 0013282 0004175 0000002 0013283 0013283 0004177 0000002 0013284 0013284 0004179 0000002 0013285 0013285 0004181 0000002 0013286 0013286 0004183 0000002 0013287 0013287 0004185 0000002 0013288 0013288 0004187 0000002 0013289 0013289 0004189 0000003 0013290 0013290 0004192 0000003 0013291 0013291 0004195 0000003 0013292 0013292 0004198 0000003 0013293 0013293 0004201 0000003 0013294 0013294 0004204 0000003 0013295 0013295 0004207 0000003 0013296 0013296 0004210 0000003 "
       \o "0013297 0013297 0004213 0000003 0013298 0013298 0004216 0000003 0013299 0013299 0004219 0000003 0013300 0013300 0004222 0000003 0013301 0013301 0004225 0000003 0013302 0013302 0004228 0000003 0013303 0013303 0004231 0000003 0013304 0013304 0004234 0000003 0013305 0013305 0004237 0000003 0013306 0013306 0004240 0000003 0013307 0013307 0004243 0000003 0013308 0013308 0004246 0000003 0013309 0013309 0004249 0000003 0013310 0013310 0004252 0000003 0013311 0013311 0004255 0000003 0042652 0042652 0004258 0000001 0042653 0042653 0004259 0000001 0042864 0042864 0004260 0000001 0042994 0042994 0004261 0000001 0042995 0042995 0004262 0000001 0042996 0042996 0004263 0000001 0043000 0043000 0004264 0000001 0043001 0043001 0004265 0000001 0043868 0043868 0004266 0000001 0043869 0043869 0004267 0000001 0043870 0043870 0004268 0000001 0043871 0043871 0004269 0000001 0043881 0043881 0004270 0000001 0063744 0063744 0004271 0000001 0063745 0063745 0004272 0000001 "
       \o "0063746 0063746 0004273 0000001 0063747 0063747 0004274 0000001 0063748 0063748 0004275 0000001 0063749 0063749 0004276 0000001 0063750 0063750 0004277 0000001 0063751 0063751 0004278 0000001 0063752 0063752 0004279 0000001 0063753 0063753 0004280 0000001 0063754 0063754 0004281 0000001 0063755 0063755 0004282 0000001 0063756 0063756 0004283 0000001 0063757 0063757 0004284 0000001 0063758 0063758 0004285 0000001 0063759 0063759 0004286 0000001 0063760 0063760 0004287 0000001 0063761 0063761 0004288 0000001 0063762 0063762 0004289 0000001 0063763 0063763 0004290 0000001 0063764 0063764 0004291 0000001 0063765 0063765 0004292 0000001 0063766 0063766 0004293 0000001 0063767 0063767 0004294 0000001 0063768 0063768 0004295 0000001 0063769 0063769 0004296 0000001 0063770 0063770 0004297 0000001 0063771 0063771 0004298 0000001 0063772 0063772 0004299 0000001 0063773 0063773 0004300 0000001 0063774 0063774 0004301 0000001 0063775 0063775 0004302 0000001 "
       \o "0063776 0063776 0004303 0000001 0063777 0063777 0004304 0000001 0063778 0063778 0004305 0000001 0063779 0063779 0004306 0000001 0063780 0063780 0004307 0000001 0063781 0063781 0004308 0000001 0063782 0063782 0004309 0000001 0063783 0063783 0004310 0000001 0063784 0063784 0004311 0000001 0063785 0063785 0004312 0000001 0063786 0063786 0004313 0000001 0063787 0063787 0004314 0000001 0063788 0063788 0004315 0000001 0063789 0063789 0004316 0000001 0063790 0063790 0004317 0000001 0063791 0063791 0004318 0000001 0063792 0063792 0004319 0000001 0063793 0063793 0004320 0000001 0063794 0063794 0004321 0000001 0063795 0063795 0004322 0000001 0063796 0063796 0004323 0000001 0063797 0063797 0004324 0000001 0063798 0063798 0004325 0000001 0063799 0063799 0004326 0000001 0063800 0063800 0004327 0000001 0063801 0063801 0004328 0000001 0063802 0063802 0004329 0000001 0063803 0063803 0004330 0000001 0063804 0063804 0004331 0000001 0063805 0063805 0004332 0000001 "
       \o "0063806 0063806 0004333 0000001 0063807 0063807 0004334 0000001 0063808 0063808 0004335 0000001 0063809 0063809 0004336 0000001 0063810 0063810 0004337 0000001 0063811 0063811 0004338 0000001 0063812 0063812 0004339 0000001 0063813 0063813 0004340 0000001 0063814 0063814 0004341 0000001 0063815 0063815 0004342 0000001 0063816 0063816 0004343 0000001 0063817 0063817 0004344 0000001 0063818 0063818 0004345 0000001 0063819 0063819 0004346 0000001 0063820 0063820 0004347 0000001 0063821 0063821 0004348 0000001 0063822 0063822 0004349 0000001 0063823 0063823 0004350 0000001 0063824 0063824 0004351 0000001 0063825 0063825 0004352 0000001 0063826 0063826 0004353 0000001 0063827 0063827 0004354 0000001 0063828 0063828 0004355 0000001 0063829 0063829 0004356 0000001 0063830 0063830 0004357 0000001 0063831 0063831 0004358 0000001 0063832 0063832 0004359 0000001 0063833 0063833 0004360 0000001 0063834 0063834 0004361 0000001 0063835 0063835 0004362 0000001 "
       \o "0063836 0063836 0004363 0000001 0063837 0063837 0004364 0000001 0063838 0063838 0004365 0000001 0063839 0063839 0004366 0000001 0063840 0063840 0004367 0000001 0063841 0063841 0004368 0000001 0063842 0063842 0004369 0000001 0063843 0063843 0004370 0000001 0063844 0063844 0004371 0000001 0063845 0063845 0004372 0000001 0063846 0063846 0004373 0000001 0063847 0063847 0004374 0000001 0063848 0063848 0004375 0000001 0063849 0063849 0004376 0000001 0063850 0063850 0004377 0000001 0063851 0063851 0004378 0000001 0063852 0063852 0004379 0000001 0063853 0063853 0004380 0000001 0063854 0063854 0004381 0000001 0063855 0063855 0004382 0000001 0063856 0063856 0004383 0000001 0063857 0063857 0004384 0000001 0063858 0063858 0004385 0000001 0063859 0063859 0004386 0000001 0063860 0063860 0004387 0000001 0063861 0063861 0004388 0000001 0063862 0063862 0004389 0000001 0063863 0063863 0004390 0000001 0063864 0063864 0004391 0000001 0063865 0063865 0004392 0000001 "
       \o "0063866 0063866 0004393 0000001 0063867 0063867 0004394 0000001 0063868 0063868 0004395 0000001 0063869 0063869 0004396 0000001 0063870 0063870 0004397 0000001 0063871 0063871 0004398 0000001 0063872 0063872 0004399 0000001 0063873 0063873 0004400 0000001 0063874 0063874 0004401 0000001 0063875 0063875 0004402 0000001 0063876 0063876 0004403 0000001 0063877 0063877 0004404 0000001 0063878 0063878 0004405 0000001 0063879 0063879 0004406 0000001 0063880 0063880 0004407 0000001 0063881 0063881 0004408 0000001 0063882 0063882 0004409 0000001 0063883 0063883 0004410 0000001 0063884 0063884 0004411 0000001 0063885 0063885 0004412 0000001 0063886 0063886 0004413 0000001 0063887 0063887 0004414 0000001 0063888 0063888 0004415 0000001 0063889 0063889 0004416 0000001 0063890 0063890 0004417 0000001 0063891 0063891 0004418 0000001 0063892 0063892 0004419 0000001 0063893 0063893 0004420 0000001 0063894 0063894 0004421 0000001 0063895 0063895 0004422 0000001 "
       \o "0063896 0063896 0004423 0000001 0063897 0063897 0004424 0000001 0063898 0063898 0004425 0000001 0063899 0063899 0004426 0000001 0063900 0063900 0004427 0000001 0063901 0063901 0004428 0000001 0063902 0063902 0004429 0000001 0063903 0063903 0004430 0000001 0063904 0063904 0004431 0000001 0063905 0063905 0004432 0000001 0063906 0063906 0004433 0000001 0063907 0063907 0004434 0000001 0063908 0063908 0004435 0000001 0063909 0063909 0004436 0000001 0063910 0063910 0004437 0000001 0063911 0063911 0004438 0000001 0063912 0063912 0004439 0000001 0063913 0063913 0004440 0000001 0063914 0063914 0004441 0000001 0063915 0063915 0004442 0000001 0063916 0063916 0004443 0000001 0063917 0063917 0004444 0000001 0063918 0063918 0004445 0000001 0063919 0063919 0004446 0000001 0063920 0063920 0004447 0000001 0063921 0063921 0004448 0000001 0063922 0063922 0004449 0000001 0063923 0063923 0004450 0000001 0063924 0063924 0004451 0000001 0063925 0063925 0004452 0000001 "
       \o "0063926 0063926 0004453 0000001 0063927 0063927 0004454 0000001 0063928 0063928 0004455 0000001 0063929 0063929 0004456 0000001 0063930 0063930 0004457 0000001 0063931 0063931 0004458 0000001 0063932 0063932 0004459 0000001 0063933 0063933 0004460 0000001 0063934 0063934 0004461 0000001 0063935 0063935 0004462 0000001 0063936 0063936 0004463 0000001 0063937 0063937 0004464 0000001 0063938 0063938 0004465 0000001 0063939 0063939 0004466 0000001 0063940 0063940 0004467 0000001 0063941 0063941 0004468 0000001 0063942 0063942 0004469 0000001 0063943 0063943 0004470 0000001 0063944 0063944 0004471 0000001 0063945 0063945 0004472 0000001 0063946 0063946 0004473 0000001 0063947 0063947 0004474 0000001 0063948 0063948 0004475 0000001 0063949 0063949 0004476 0000001 0063950 0063950 0004477 0000001 0063951 0063951 0004478 0000001 0063952 0063952 0004479 0000001 0063953 0063953 0004480 0000001 0063954 0063954 0004481 0000001 0063955 0063955 0004482 0000001 "
       \o "0063956 0063956 0004483 0000001 0063957 0063957 0004484 0000001 0063958 0063958 0004485 0000001 0063959 0063959 0004486 0000001 0063960 0063960 0004487 0000001 0063961 0063961 0004488 0000001 0063962 0063962 0004489 0000001 0063963 0063963 0004490 0000001 0063964 0063964 0004491 0000001 0063965 0063965 0004492 0000001 0063966 0063966 0004493 0000001 0063967 0063967 0004494 0000001 0063968 0063968 0004495 0000001 0063969 0063969 0004496 0000001 0063970 0063970 0004497 0000001 0063971 0063971 0004498 0000001 0063972 0063972 0004499 0000001 0063973 0063973 0004500 0000001 0063974 0063974 0004501 0000001 0063975 0063975 0004502 0000001 0063976 0063976 0004503 0000001 0063977 0063977 0004504 0000001 0063978 0063978 0004505 0000001 0063979 0063979 0004506 0000001 0063980 0063980 0004507 0000001 0063981 0063981 0004508 0000001 0063982 0063982 0004509 0000001 0063983 0063983 0004510 0000001 0063984 0063984 0004511 0000001 0063985 0063985 0004512 0000001 "
       \o "0063986 0063986 0004513 0000001 0063987 0063987 0004514 0000001 0063988 0063988 0004515 0000001 0063989 0063989 0004516 0000001 0063990 0063990 0004517 0000001 0063991 0063991 0004518 0000001 0063992 0063992 0004519 0000001 0063993 0063993 0004520 0000001 0063994 0063994 0004521 0000001 0063995 0063995 0004522 0000001 0063996 0063996 0004523 0000001 0063997 0063997 0004524 0000001 0063998 0063998 0004525 0000001 0063999 0063999 0004526 0000001 0064000 0064000 0004527 0000001 0064001 0064001 0004528 0000001 0064002 0064002 0004529 0000001 0064003 0064003 0004530 0000001 0064004 0064004 0004531 0000001 0064005 0064005 0004532 0000001 0064006 0064006 0004533 0000001 0064007 0064007 0004534 0000001 0064008 0064008 0004535 0000001 0064009 0064009 0004536 0000001 0064010 0064010 0004537 0000001 0064011 0064011 0004538 0000001 0064012 0064012 0004539 0000001 0064013 0064013 0004540 0000001 0064016 0064016 0004541 0000001 0064018 0064018 0004542 0000001 "
       \o "0064021 0064021 0004543 0000001 0064022 0064022 0004544 0000001 0064023 0064023 0004545 0000001 0064024 0064024 0004546 0000001 0064025 0064025 0004547 0000001 0064026 0064026 0004548 0000001 0064027 0064027 0004549 0000001 0064028 0064028 0004550 0000001 0064029 0064029 0004551 0000001 0064030 0064030 0004552 0000001 0064032 0064032 0004553 0000001 0064034 0064034 0004554 0000001 0064037 0064037 0004555 0000001 0064038 0064038 0004556 0000001 0064042 0064042 0004557 0000001 0064043 0064043 0004558 0000001 0064044 0064044 0004559 0000001 0064045 0064045 0004560 0000001 0064046 0064046 0004561 0000001 0064047 0064047 0004562 0000001 0064048 0064048 0004563 0000001 0064049 0064049 0004564 0000001 0064050 0064050 0004565 0000001 0064051 0064051 0004566 0000001 0064052 0064052 0004567 0000001 0064053 0064053 0004568 0000001 0064054 0064054 0004569 0000001 0064055 0064055 0004570 0000001 0064056 0064056 0004571 0000001 0064057 0064057 0004572 0000001 "
       \o "0064058 0064058 0004573 0000001 0064059 0064059 0004574 0000001 0064060 0064060 0004575 0000001 0064061 0064061 0004576 0000001 0064062 0064062 0004577 0000001 0064063 0064063 0004578 0000001 0064064 0064064 0004579 0000001 0064065 0064065 0004580 0000001 0064066 0064066 0004581 0000001 0064067 0064067 0004582 0000001 0064068 0064068 0004583 0000001 0064069 0064069 0004584 0000001 0064070 0064070 0004585 0000001 0064071 0064071 0004586 0000001 0064072 0064072 0004587 0000001 0064073 0064073 0004588 0000001 0064074 0064074 0004589 0000001 0064075 0064075 0004590 0000001 0064076 0064076 0004591 0000001 0064077 0064077 0004592 0000001 0064078 0064078 0004593 0000001 0064079 0064079 0004594 0000001 0064080 0064080 0004595 0000001 0064081 0064081 0004596 0000001 0064082 0064083 0004597 0000001 0064084 0064084 0004598 0000001 0064085 0064085 0004599 0000001 0064086 0064086 0004600 0000001 0064087 0064087 0004601 0000001 0064088 0064088 0004602 0000001 "
       \o "0064089 0064089 0004603 0000001 0064090 0064090 0004604 0000001 0064091 0064091 0004605 0000001 0064092 0064092 0004606 0000001 0064093 0064093 0004607 0000001 0064094 0064094 0004608 0000001 0064095 0064095 0004609 0000001 0064096 0064096 0004610 0000001 0064097 0064097 0004611 0000001 0064098 0064098 0004612 0000001 0064099 0064099 0004613 0000001 0064100 0064100 0004614 0000001 0064101 0064101 0004615 0000001 0064102 0064102 0004616 0000001 0064103 0064103 0004617 0000001 0064104 0064104 0004618 0000001 0064105 0064105 0004619 0000001 0064106 0064106 0004620 0000001 0064107 0064107 0004621 0000001 0064108 0064108 0004622 0000001 0064109 0064109 0004623 0000001 0064112 0064112 0004624 0000001 0064113 0064113 0004625 0000001 0064114 0064114 0004626 0000001 0064115 0064115 0004627 0000001 0064116 0064116 0004628 0000001 0064117 0064117 0004629 0000001 0064118 0064118 0004630 0000001 0064119 0064119 0004631 0000001 0064120 0064120 0004632 0000001 "
       \o "0064121 0064121 0004633 0000001 0064122 0064122 0004634 0000001 0064123 0064123 0004635 0000001 0064124 0064124 0004636 0000001 0064125 0064125 0004637 0000001 0064126 0064126 0004638 0000001 0064127 0064127 0004639 0000001 0064128 0064128 0004640 0000001 0064129 0064129 0004641 0000001 0064130 0064130 0004642 0000001 0064131 0064131 0004643 0000001 0064132 0064132 0004644 0000001 0064133 0064133 0004645 0000001 0064134 0064134 0004646 0000001 0064135 0064135 0004647 0000001 0064136 0064136 0004648 0000001 0064137 0064137 0004649 0000001 0064138 0064138 0004650 0000001 0064139 0064139 0004651 0000001 0064140 0064140 0004652 0000001 0064141 0064141 0004653 0000001 0064142 0064142 0004654 0000001 0064143 0064143 0004655 0000001 0064144 0064144 0004656 0000001 0064145 0064145 0004657 0000001 0064146 0064146 0004658 0000001 0064147 0064147 0004659 0000001 0064148 0064148 0004660 0000001 0064149 0064149 0004661 0000001 0064150 0064150 0004662 0000001 "
       \o "0064151 0064151 0004663 0000001 0064152 0064152 0004664 0000001 0064153 0064153 0004665 0000001 0064154 0064154 0004666 0000001 0064155 0064155 0004667 0000001 0064156 0064156 0004668 0000001 0064157 0064157 0004669 0000001 0064158 0064158 0004670 0000001 0064159 0064159 0004671 0000001 0064160 0064160 0004672 0000001 0064161 0064161 0004673 0000001 0064162 0064162 0004674 0000001 0064163 0064163 0004675 0000001 0064164 0064164 0004676 0000001 0064165 0064165 0004677 0000001 0064166 0064166 0004678 0000001 0064167 0064167 0004679 0000001 0064168 0064168 0004680 0000001 0064169 0064169 0004681 0000001 0064170 0064170 0004682 0000001 0064171 0064171 0004683 0000001 0064172 0064172 0004684 0000001 0064173 0064173 0004685 0000001 0064174 0064174 0004686 0000001 0064175 0064175 0004687 0000001 0064176 0064176 0004688 0000001 0064177 0064177 0004689 0000001 0064178 0064178 0004690 0000001 0064179 0064179 0004691 0000001 0064180 0064180 0004692 0000001 "
       \o "0064181 0064181 0004693 0000001 0064182 0064182 0004694 0000001 0064183 0064183 0004695 0000001 0064184 0064184 0004696 0000001 0064185 0064185 0004697 0000001 0064186 0064186 0004698 0000001 0064187 0064187 0004699 0000001 0064188 0064188 0004700 0000001 0064189 0064189 0004701 0000001 0064190 0064190 0004702 0000001 0064191 0064191 0004703 0000001 0064192 0064192 0004704 0000001 0064193 0064193 0004705 0000001 0064194 0064194 0004706 0000001 0064195 0064195 0004707 0000001 0064196 0064196 0004708 0000001 0064197 0064197 0004709 0000001 0064198 0064198 0004710 0000001 0064199 0064199 0004711 0000001 0064200 0064200 0004712 0000001 0064201 0064201 0004713 0000001 0064202 0064202 0004714 0000001 0064203 0064203 0004715 0000001 0064204 0064204 0004716 0000001 0064205 0064205 0004717 0000001 0064206 0064206 0004718 0000001 0064207 0064207 0004719 0000001 0064208 0064208 0004720 0000001 0064209 0064209 0004721 0000001 0064210 0064210 0004722 0000001 "
       \o "0064211 0064211 0004723 0000001 0064212 0064212 0004724 0000001 0064213 0064213 0004725 0000001 0064214 0064214 0004726 0000001 0064215 0064215 0004727 0000001 0064216 0064216 0004728 0000001 0064217 0064217 0004729 0000001 0064256 0064256 0004730 0000002 0064257 0064257 0004732 0000002 0064258 0064258 0004734 0000002 0064259 0064259 0004736 0000003 0064260 0064260 0004739 0000003 0064261 0064261 0004742 0000002 0064262 0064262 0004744 0000002 0064275 0064275 0004746 0000002 0064276 0064276 0004748 0000002 0064277 0064277 0004750 0000002 0064278 0064278 0004752 0000002 0064279 0064279 0004754 0000002 0064285 0064285 0004756 0000002 0064287 0064287 0004758 0000002 0064288 0064288 0004760 0000001 0064289 0064289 0004761 0000001 0064290 0064291 0004762 0000001 0064292 0064294 0004763 0000001 0064295 0064295 0004764 0000001 0064296 0064296 0004765 0000001 0064297 0064297 0004766 0000001 0064298 0064299 0004767 0000002 0064300 0064301 0004769 0000003 "
       \o "0064302 0064303 0004772 0000002 0064304 0064304 0004774 0000002 0064305 0064305 0004776 0000002 0064306 0064306 0004778 0000002 0064307 0064307 0004780 0000002 0064308 0064308 0004782 0000002 0064309 0064309 0004784 0000002 0064310 0064310 0004786 0000002 0064312 0064312 0004788 0000002 0064313 0064313 0004790 0000002 0064314 0064314 0004792 0000002 0064315 0064315 0004794 0000002 0064316 0064316 0004796 0000002 0064318 0064318 0004798 0000002 0064320 0064320 0004800 0000002 0064321 0064321 0004802 0000002 0064323 0064323 0004804 0000002 0064324 0064324 0004806 0000002 0064326 0064326 0004808 0000002 0064327 0064327 0004810 0000002 0064328 0064328 0004812 0000002 0064329 0064329 0004814 0000002 0064330 0064330 0004816 0000002 0064331 0064331 0004818 0000002 0064332 0064332 0004820 0000002 0064333 0064333 0004822 0000002 0064334 0064334 0004824 0000002 0064335 0064335 0004826 0000002 0064336 0064336 0004828 0000001 0064337 0064337 0004829 0000001 "
       \o "0064338 0064338 0004830 0000001 0064339 0064339 0004831 0000001 0064340 0064340 0004832 0000001 0064341 0064341 0004833 0000001 0064342 0064342 0004834 0000001 0064343 0064343 0004835 0000001 0064344 0064344 0004836 0000001 0064345 0064345 0004837 0000001 0064346 0064346 0004838 0000001 0064347 0064347 0004839 0000001 0064348 0064348 0004840 0000001 0064349 0064349 0004841 0000001 0064350 0064350 0004842 0000001 0064351 0064351 0004843 0000001 0064352 0064352 0004844 0000001 0064353 0064353 0004845 0000001 0064354 0064354 0004846 0000001 0064355 0064355 0004847 0000001 0064356 0064356 0004848 0000001 0064357 0064357 0004849 0000001 0064358 0064358 0004850 0000001 0064359 0064359 0004851 0000001 0064360 0064360 0004852 0000001 0064361 0064361 0004853 0000001 0064362 0064362 0004854 0000001 0064363 0064363 0004855 0000001 0064364 0064364 0004856 0000001 0064365 0064365 0004857 0000001 0064366 0064366 0004858 0000001 0064367 0064367 0004859 0000001 "
       \o "0064368 0064368 0004860 0000001 0064369 0064369 0004861 0000001 0064370 0064370 0004862 0000001 0064371 0064371 0004863 0000001 0064372 0064372 0004864 0000001 0064373 0064373 0004865 0000001 0064374 0064374 0004866 0000001 0064375 0064375 0004867 0000001 0064376 0064376 0004868 0000001 0064377 0064377 0004869 0000001 0064378 0064378 0004870 0000001 0064379 0064379 0004871 0000001 0064380 0064380 0004872 0000001 0064381 0064382 0004873 0000001 0064383 0064383 0004874 0000001 0064384 0064384 0004875 0000001 0064385 0064385 0004876 0000001 0064386 0064386 0004877 0000001 0064387 0064387 0004878 0000001 0064388 0064388 0004879 0000001 0064389 0064389 0004880 0000001 0064390 0064390 0004881 0000001 0064391 0064391 0004882 0000001 0064392 0064392 0004883 0000001 0064393 0064393 0004884 0000001 0064394 0064394 0004885 0000001 0064395 0064395 0004886 0000001 0064396 0064396 0004887 0000001 0064397 0064397 0004888 0000001 0064398 0064398 0004889 0000001 "
       \o "0064399 0064399 0004890 0000001 0064400 0064400 0004891 0000001 0064401 0064401 0004892 0000001 0064402 0064402 0004893 0000001 0064403 0064403 0004894 0000001 0064404 0064404 0004895 0000001 0064405 0064405 0004896 0000001 0064406 0064406 0004897 0000001 0064407 0064407 0004898 0000001 0064408 0064408 0004899 0000001 0064409 0064409 0004900 0000001 0064410 0064410 0004901 0000001 0064411 0064411 0004902 0000001 0064412 0064412 0004903 0000001 0064413 0064413 0004904 0000001 0064414 0064414 0004905 0000001 0064415 0064416 0004906 0000001 0064417 0064417 0004907 0000001 0064418 0064418 0004908 0000001 0064419 0064419 0004909 0000001 0064420 0064420 0004910 0000002 0064421 0064421 0004912 0000002 0064422 0064422 0004914 0000001 0064423 0064423 0004915 0000001 0064424 0064424 0004916 0000001 0064425 0064425 0004917 0000001 0064426 0064426 0004918 0000001 0064427 0064427 0004919 0000001 0064428 0064428 0004920 0000001 0064429 0064429 0004921 0000001 "
       \o "0064430 0064430 0004922 0000001 0064431 0064431 0004923 0000001 0064432 0064432 0004924 0000002 0064433 0064433 0004926 0000002 0064467 0064467 0004928 0000001 0064468 0064468 0004929 0000001 0064469 0064469 0004930 0000001 0064470 0064470 0004931 0000001 0064471 0064471 0004932 0000001 0064472 0064472 0004933 0000001 0064473 0064473 0004934 0000001 0064474 0064474 0004935 0000001 0064475 0064475 0004936 0000001 0064476 0064476 0004937 0000001 0064477 0064477 0004938 0000002 0064478 0064478 0004940 0000001 0064479 0064479 0004941 0000001 0064480 0064480 0004942 0000001 0064481 0064481 0004943 0000001 0064482 0064482 0004944 0000001 0064483 0064483 0004945 0000001 0064484 0064484 0004946 0000001 0064485 0064485 0004947 0000001 0064486 0064486 0004948 0000001 0064487 0064487 0004949 0000001 0064488 0064488 0004950 0000001 0064489 0064489 0004951 0000001 0064490 0064490 0004952 0000003 0064491 0064491 0004955 0000003 0064492 0064492 0004958 0000003 "
       \o "0064493 0064493 0004961 0000003 0064494 0064494 0004964 0000003 0064495 0064495 0004967 0000003 0064496 0064496 0004970 0000003 0064497 0064497 0004973 0000003 0064498 0064498 0004976 0000003 0064499 0064499 0004979 0000003 0064500 0064500 0004982 0000003 0064501 0064501 0004985 0000003 0064502 0064502 0004988 0000003 0064503 0064503 0004991 0000003 0064504 0064504 0004994 0000003 0064505 0064505 0004997 0000003 0064506 0064506 0005000 0000003 0064507 0064507 0005003 0000003 0064508 0064508 0005006 0000001 0064509 0064509 0005007 0000001 0064510 0064510 0005008 0000001 0064511 0064511 0005009 0000001 0064512 0064513 0005010 0000003 0064514 0064514 0005013 0000003 0064515 0064516 0005016 0000003 0064517 0064519 0005019 0000002 0064520 0064520 0005021 0000002 0064521 0064522 0005023 0000002 0064523 0064525 0005025 0000002 0064526 0064526 0005027 0000002 0064527 0064528 0005029 0000002 0064529 0064529 0005031 0000002 0064530 0064530 0005033 0000002 "
       \o "0064531 0064532 0005035 0000002 0064533 0064533 0005037 0000002 0064534 0064534 0005039 0000002 0064535 0064535 0005041 0000002 0064536 0064536 0005043 0000002 0064537 0064538 0005045 0000002 0064539 0064539 0005047 0000002 0064540 0064542 0005049 0000002 0064543 0064543 0005051 0000002 0064544 0064544 0005053 0000002 0064545 0064545 0005055 0000002 0064546 0064548 0005057 0000002 0064549 0064549 0005059 0000002 0064550 0064550 0005061 0000002 0064551 0064551 0005063 0000002 0064552 0064552 0005065 0000002 0064553 0064553 0005067 0000002 0064554 0064554 0005069 0000002 0064555 0064555 0005071 0000002 0064556 0064556 0005073 0000002 0064557 0064559 0005075 0000002 0064560 0064560 0005077 0000002 0064561 0064562 0005079 0000002 0064563 0064563 0005081 0000002 0064564 0064564 0005083 0000002 0064565 0064566 0005085 0000002 0064567 0064567 0005087 0000002 0064568 0064570 0005089 0000002 0064571 0064572 0005091 0000002 0064573 0064574 0005093 0000002 "
       \o "0064575 0064577 0005095 0000002 0064578 0064578 0005097 0000002 0064579 0064580 0005099 0000002 0064581 0064583 0005101 0000002 0064584 0064584 0005103 0000002 0064585 0064586 0005105 0000002 0064587 0064589 0005107 0000002 0064590 0064590 0005109 0000002 0064591 0064592 0005111 0000002 0064593 0064593 0005113 0000002 0064594 0064594 0005115 0000002 0064595 0064596 0005117 0000002 0064597 0064599 0005119 0000002 0064600 0064600 0005121 0000002 0064601 0064602 0005123 0000002 0064603 0064603 0005125 0000002 0064604 0064604 0005127 0000002 0064605 0064605 0005129 0000002 0064606 0064606 0005131 0000003 0064607 0064607 0005134 0000003 0064608 0064608 0005137 0000003 0064609 0064609 0005140 0000003 0064610 0064610 0005143 0000003 0064611 0064611 0005146 0000003 0064612 0064613 0005149 0000003 0064614 0064615 0005152 0000003 0064616 0064617 0005155 0000003 0064618 0064619 0005158 0000002 0064620 0064621 0005160 0000002 0064622 0064623 0005162 0000002 "
       \o "0064624 0064625 0005164 0000002 0064626 0064627 0005166 0000002 0064628 0064629 0005168 0000002 0064630 0064631 0005170 0000002 0064632 0064633 0005172 0000002 0064634 0064635 0005174 0000002 0064636 0064637 0005176 0000002 0064638 0064639 0005178 0000002 0064640 0064640 0005180 0000002 0064641 0064642 0005182 0000002 0064643 0064644 0005184 0000002 0064645 0064645 0005186 0000002 0064646 0064647 0005188 0000002 0064648 0064648 0005190 0000002 0064649 0064649 0005192 0000002 0064650 0064651 0005194 0000002 0064652 0064653 0005196 0000002 0064654 0064655 0005198 0000002 0064656 0064656 0005200 0000002 0064657 0064658 0005202 0000002 0064659 0064660 0005204 0000002 0064661 0064662 0005206 0000002 0064663 0064665 0005208 0000003 0064666 0064666 0005211 0000003 0064667 0064667 0005214 0000003 0064668 0064670 0005217 0000002 0064671 0064671 0005219 0000002 0064672 0064672 0005221 0000002 0064673 0064675 0005223 0000002 0064676 0064676 0005225 0000002 "
       \o "0064677 0064677 0005227 0000002 0064678 0064678 0005229 0000002 0064679 0064679 0005231 0000002 0064680 0064680 0005233 0000002 0064681 0064681 0005235 0000002 0064682 0064682 0005237 0000002 0064683 0064683 0005239 0000002 0064684 0064684 0005241 0000002 0064685 0064687 0005243 0000002 0064688 0064688 0005245 0000002 0064689 0064690 0005247 0000002 0064691 0064691 0005249 0000002 0064692 0064694 0005251 0000002 0064695 0064695 0005253 0000002 0064696 0064696 0005255 0000002 0064697 0064697 0005257 0000002 0064698 0064698 0005259 0000002 0064699 0064699 0005261 0000002 0064700 0064700 0005263 0000002 0064701 0064701 0005265 0000002 0064702 0064704 0005267 0000002 0064705 0064705 0005269 0000002 0064706 0064706 0005271 0000002 0064707 0064707 0005273 0000002 0064708 0064710 0005275 0000002 0064711 0064712 0005277 0000002 0064713 0064715 0005279 0000002 0064716 0064716 0005281 0000002 0064717 0064717 0005283 0000002 0064718 0064720 0005285 0000002 "
       \o "0064721 0064721 0005287 0000002 0064722 0064724 0005289 0000002 0064725 0064725 0005291 0000002 0064726 0064726 0005293 0000002 0064727 0064727 0005295 0000002 0064728 0064728 0005297 0000002 0064729 0064729 0005299 0000002 0064730 0064732 0005301 0000002 0064733 0064733 0005303 0000002 0064734 0064734 0005305 0000002 0064735 0064735 0005307 0000003 0064736 0064736 0005310 0000003 0064737 0064737 0005313 0000002 0064738 0064738 0005315 0000002 0064739 0064739 0005317 0000002 0064740 0064740 0005319 0000002 0064741 0064741 0005321 0000002 0064742 0064742 0005323 0000002 0064743 0064743 0005325 0000002 0064744 0064744 0005327 0000002 0064745 0064745 0005329 0000002 0064746 0064746 0005331 0000002 0064747 0064748 0005333 0000002 0064749 0064749 0005335 0000002 0064750 0064750 0005337 0000002 0064751 0064751 0005339 0000002 0064752 0064752 0005341 0000002 0064753 0064753 0005343 0000002 0064754 0064754 0005345 0000003 0064755 0064755 0005348 0000003 "
       \o "0064756 0064756 0005351 0000003 0064757 0064758 0005354 0000002 0064759 0064760 0005356 0000002 0064761 0064762 0005358 0000002 0064763 0064764 0005360 0000002 0064765 0064766 0005362 0000002 0064767 0064768 0005364 0000002 0064769 0064770 0005366 0000002 0064771 0064772 0005368 0000002 0064773 0064774 0005370 0000002 0064775 0064776 0005372 0000002 0064777 0064779 0005374 0000002 0064780 0064780 0005376 0000002 0064781 0064781 0005378 0000002 0064782 0064782 0005380 0000002 0064783 0064783 0005382 0000002 0064784 0064784 0005384 0000002 0064785 0064786 0005386 0000002 0064787 0064788 0005388 0000002 0064789 0064790 0005390 0000002 0064791 0064792 0005392 0000002 0064793 0064794 0005394 0000002 0064795 0064796 0005396 0000002 0064797 0064798 0005398 0000002 0064799 0064800 0005400 0000002 0064801 0064802 0005402 0000002 0064803 0064804 0005404 0000002 0064805 0064807 0005406 0000002 0064808 0064808 0005408 0000002 0064809 0064809 0005410 0000002 "
       \o "0064810 0064810 0005412 0000002 0064811 0064811 0005414 0000002 0064812 0064812 0005416 0000002 0064813 0064815 0005418 0000002 0064816 0064816 0005420 0000002 0064817 0064817 0005422 0000002 0064818 0064818 0005424 0000002 0064819 0064819 0005426 0000002 0064820 0064822 0005428 0000002 0064823 0064825 0005430 0000002 0064826 0064826 0005432 0000002 0064827 0064827 0005434 0000002 0064828 0064828 0005436 0000002 0064829 0064829 0005438 0000002 0064848 0064848 0005440 0000003 0064849 0064849 0005443 0000003 0064850 0064850 0005446 0000003 0064851 0064851 0005449 0000003 0064852 0064852 0005452 0000003 0064853 0064855 0005455 0000003 0064856 0064856 0005458 0000003 0064857 0064857 0005461 0000003 0064858 0064858 0005464 0000003 0064859 0064859 0005467 0000003 0064860 0064860 0005470 0000003 0064861 0064861 0005473 0000003 0064862 0064862 0005476 0000003 0064863 0064863 0005479 0000003 0064864 0064864 0005482 0000003 0064865 0064865 0005485 0000003 "
       \o "0064866 0064866 0005488 0000003 0064867 0064867 0005491 0000003 0064868 0064868 0005494 0000003 0064869 0064869 0005497 0000003 0064870 0064870 0005500 0000003 0064871 0064871 0005503 0000003 0064872 0064872 0005506 0000003 0064873 0064873 0005509 0000003 0064874 0064874 0005512 0000003 0064875 0064875 0005515 0000003 0064876 0064876 0005518 0000003 0064877 0064877 0005521 0000003 0064878 0064878 0005524 0000003 0064879 0064879 0005527 0000003 0064880 0064880 0005530 0000003 0064881 0064881 0005533 0000003 0064882 0064882 0005536 0000003 0064883 0064883 0005539 0000003 0064884 0064884 0005542 0000003 0064885 0064885 0005545 0000003 0064886 0064886 0005548 0000003 0064887 0064887 0005551 0000003 0064888 0064888 0005554 0000003 0064889 0064889 0005557 0000003 0064890 0064890 0005560 0000003 0064891 0064891 0005563 0000003 0064892 0064892 0005566 0000003 0064893 0064893 0005569 0000003 0064894 0064894 0005572 0000003 0064895 0064895 0005575 0000003 "
       \o "0064896 0064896 0005578 0000003 0064897 0064897 0005581 0000003 0064898 0064898 0005584 0000003 0064899 0064899 0005587 0000003 0064900 0064900 0005590 0000003 0064901 0064901 0005593 0000003 0064902 0064902 0005596 0000003 0064903 0064903 0005599 0000003 0064904 0064904 0005602 0000003 0064905 0064905 0005605 0000003 0064906 0064906 0005608 0000003 0064907 0064907 0005611 0000003 0064908 0064908 0005614 0000003 0064909 0064909 0005617 0000003 0064910 0064910 0005620 0000003 0064911 0064911 0005623 0000003 0064914 0064914 0005626 0000003 0064915 0064915 0005629 0000003 0064916 0064916 0005632 0000003 0064917 0064917 0005635 0000003 0064918 0064918 0005638 0000003 0064919 0064919 0005641 0000003 0064920 0064920 0005644 0000003 0064921 0064921 0005647 0000003 0064922 0064922 0005650 0000003 0064923 0064923 0005653 0000003 0064924 0064924 0005656 0000003 0064925 0064925 0005659 0000003 0064926 0064926 0005662 0000003 0064927 0064927 0005665 0000003 "
       \o "0064928 0064928 0005668 0000003 0064929 0064929 0005671 0000003 0064930 0064930 0005674 0000003 0064931 0064931 0005677 0000003 0064932 0064932 0005680 0000003 0064933 0064933 0005683 0000003 0064934 0064934 0005686 0000003 0064935 0064935 0005689 0000003 0064936 0064936 0005692 0000003 0064937 0064937 0005695 0000003 0064938 0064938 0005698 0000003 0064939 0064939 0005701 0000003 0064940 0064940 0005704 0000003 0064941 0064941 0005707 0000003 0064942 0064942 0005710 0000003 0064943 0064943 0005713 0000003 0064944 0064944 0005716 0000003 0064945 0064945 0005719 0000003 0064946 0064946 0005722 0000003 0064947 0064947 0005725 0000003 0064948 0064948 0005728 0000003 0064949 0064949 0005731 0000003 0064950 0064950 0005734 0000003 0064951 0064951 0005737 0000003 0064952 0064952 0005740 0000003 0064953 0064953 0005743 0000003 0064954 0064954 0005746 0000003 0064955 0064955 0005749 0000003 0064956 0064956 0005752 0000003 0064957 0064957 0005755 0000003 "
       \o "0064958 0064958 0005758 0000003 0064959 0064959 0005761 0000003 0064960 0064960 0005764 0000003 0064961 0064961 0005767 0000003 0064962 0064962 0005770 0000003 0064963 0064963 0005773 0000003 0064964 0064964 0005776 0000003 0064965 0064965 0005779 0000003 0064966 0064966 0005782 0000003 0064967 0064967 0005785 0000003 0065008 0065008 0005788 0000003 0065009 0065009 0005791 0000003 0065010 0065010 0005794 0000004 0065011 0065011 0005798 0000004 0065012 0065012 0005802 0000004 0065013 0065013 0005806 0000004 0065014 0065014 0005810 0000004 0065015 0065015 0005814 0000004 0065016 0065016 0005818 0000004 0065017 0065017 0005822 0000003 0065018 0065018 0005825 0000018 0065019 0065019 0005843 0000008 0065020 0065020 0005851 0000004 0065040 0065040 0005855 0000001 0065041 0065042 0005856 0000001 0065043 0065044 0005857 0000001 0065045 0065045 0005858 0000001 0065046 0065046 0005859 0000001 0065047 0065048 0005860 0000001 0065049 0065049 0005861 0000003 "
       \o "0065072 0065072 0005864 0000002 0065073 0065073 0005866 0000001 0065074 0065074 0005867 0000001 0065075 0065075 0005868 0000001 0065076 0065076 0005869 0000001 0065077 0065078 0005870 0000001 0065079 0065079 0005871 0000001 0065080 0065080 0005872 0000001 0065081 0065082 0005873 0000001 0065083 0065084 0005874 0000001 0065085 0065086 0005875 0000001 0065087 0065088 0005876 0000001 0065089 0065092 0005877 0000001 0065095 0065095 0005878 0000001 0065096 0065096 0005879 0000001 0065097 0065097 0005880 0000002 0065098 0065098 0005882 0000002 0065099 0065099 0005884 0000002 0065100 0065100 0005886 0000002 0065101 0065101 0005888 0000001 0065102 0065102 0005889 0000001 0065103 0065103 0005890 0000001 0065104 0065104 0005891 0000001 0065105 0065105 0005892 0000001 0065106 0065106 0005893 0000001 0065108 0065108 0005894 0000001 0065109 0065109 0005895 0000001 0065110 0065110 0005896 0000001 0065111 0065111 0005897 0000001 0065112 0065112 0005898 0000001 "
       \o "0065113 0065114 0005899 0000001 0065115 0065115 0005900 0000001 0065116 0065116 0005901 0000001 0065117 0065118 0005902 0000001 0065119 0065119 0005903 0000001 0065120 0065120 0005904 0000001 0065121 0065122 0005905 0000001 0065123 0065123 0005906 0000001 0065124 0065124 0005907 0000001 0065125 0065125 0005908 0000001 0065126 0065126 0005909 0000001 0065128 0065128 0005910 0000001 0065129 0065130 0005911 0000001 0065131 0065131 0005912 0000001 0065136 0065136 0005913 0000002 0065137 0065137 0005915 0000002 0065138 0065138 0005917 0000002 0065140 0065140 0005919 0000002 0065142 0065142 0005921 0000002 0065143 0065143 0005923 0000002 0065144 0065144 0005925 0000002 0065145 0065145 0005927 0000002 0065146 0065146 0005929 0000002 0065147 0065147 0005931 0000002 0065148 0065148 0005933 0000002 0065149 0065149 0005935 0000002 0065150 0065150 0005937 0000002 0065151 0065151 0005939 0000002 0065152 0065152 0005941 0000001 0065153 0065153 0005942 0000002 "
       \o "0065154 0065155 0005944 0000002 0065156 0065156 0005946 0000002 0065157 0065157 0005948 0000002 0065158 0065158 0005950 0000002 0065159 0065159 0005952 0000002 0065160 0065160 0005954 0000002 0065161 0065161 0005956 0000002 0065162 0065162 0005958 0000002 0065163 0065163 0005960 0000002 0065164 0065164 0005962 0000002 0065165 0065165 0005964 0000001 0065166 0065167 0005965 0000001 0065168 0065168 0005966 0000001 0065169 0065169 0005967 0000001 0065170 0065171 0005968 0000001 0065172 0065173 0005969 0000001 0065174 0065174 0005970 0000001 0065175 0065175 0005971 0000001 0065176 0065177 0005972 0000001 0065178 0065178 0005973 0000001 0065179 0065179 0005974 0000001 0065180 0065181 0005975 0000001 0065182 0065182 0005976 0000001 0065183 0065183 0005977 0000001 0065184 0065185 0005978 0000001 0065186 0065186 0005979 0000001 0065187 0065187 0005980 0000001 0065188 0065189 0005981 0000001 0065190 0065190 0005982 0000001 0065191 0065191 0005983 0000001 "
       \o "0065192 0065193 0005984 0000001 0065194 0065195 0005985 0000001 0065196 0065197 0005986 0000001 0065198 0065199 0005987 0000001 0065200 0065201 0005988 0000001 0065202 0065202 0005989 0000001 0065203 0065203 0005990 0000001 0065204 0065205 0005991 0000001 0065206 0065206 0005992 0000001 0065207 0065207 0005993 0000001 0065208 0065209 0005994 0000001 0065210 0065210 0005995 0000001 0065211 0065211 0005996 0000001 0065212 0065213 0005997 0000001 0065214 0065214 0005998 0000001 0065215 0065215 0005999 0000001 0065216 0065217 0006000 0000001 0065218 0065218 0006001 0000001 0065219 0065219 0006002 0000001 0065220 0065221 0006003 0000001 0065222 0065222 0006004 0000001 0065223 0065223 0006005 0000001 0065224 0065225 0006006 0000001 0065226 0065226 0006007 0000001 0065227 0065227 0006008 0000001 0065228 0065229 0006009 0000001 0065230 0065230 0006010 0000001 0065231 0065231 0006011 0000001 0065232 0065232 0006012 0000001 0065233 0065233 0006013 0000001 "
       \o "0065234 0065234 0006014 0000001 0065235 0065235 0006015 0000001 0065236 0065237 0006016 0000001 0065238 0065238 0006017 0000001 0065239 0065239 0006018 0000001 0065240 0065241 0006019 0000001 0065242 0065242 0006020 0000001 0065243 0065243 0006021 0000001 0065244 0065245 0006022 0000001 0065246 0065246 0006023 0000001 0065247 0065247 0006024 0000001 0065248 0065249 0006025 0000001 0065250 0065250 0006026 0000001 0065251 0065251 0006027 0000001 0065252 0065253 0006028 0000001 0065254 0065254 0006029 0000001 0065255 0065255 0006030 0000001 0065256 0065257 0006031 0000001 0065258 0065258 0006032 0000001 0065259 0065259 0006033 0000001 0065260 0065261 0006034 0000001 0065262 0065263 0006035 0000001 0065264 0065265 0006036 0000001 0065266 0065266 0006037 0000001 0065267 0065267 0006038 0000001 0065268 0065268 0006039 0000001 0065269 0065269 0006040 0000003 0065270 0065271 0006043 0000003 0065272 0065273 0006046 0000003 0065274 0065274 0006049 0000003 "
       \o "0065275 0065275 0006052 0000002 0065276 0065276 0006054 0000002 0065281 0065374 0006056 0000001 0065375 0065376 0006057 0000001 0065377 0065377 0006058 0000001 0065378 0065379 0006059 0000001 0065380 0065380 0006060 0000001 0065381 0065381 0006061 0000001 0065382 0065382 0006062 0000001 0065383 0065383 0006063 0000001 0065384 0065384 0006064 0000001 0065385 0065385 0006065 0000001 0065386 0065386 0006066 0000001 0065387 0065387 0006067 0000001 0065388 0065388 0006068 0000001 0065389 0065389 0006069 0000001 0065390 0065390 0006070 0000001 0065391 0065391 0006071 0000001 0065392 0065392 0006072 0000001 0065393 0065393 0006073 0000001 0065394 0065394 0006074 0000001 0065395 0065395 0006075 0000001 0065396 0065396 0006076 0000001 0065397 0065398 0006077 0000001 0065399 0065399 0006078 0000001 0065400 0065400 0006079 0000001 0065401 0065401 0006080 0000001 0065402 0065402 0006081 0000001 0065403 0065403 0006082 0000001 0065404 0065404 0006083 0000001 "
       \o "0065405 0065405 0006084 0000001 0065406 0065406 0006085 0000001 0065407 0065407 0006086 0000001 0065408 0065408 0006087 0000001 0065409 0065409 0006088 0000001 0065410 0065410 0006089 0000001 0065411 0065411 0006090 0000001 0065412 0065412 0006091 0000001 0065413 0065418 0006092 0000001 0065419 0065419 0006093 0000001 0065420 0065420 0006094 0000001 0065421 0065421 0006095 0000001 0065422 0065422 0006096 0000001 0065423 0065427 0006097 0000001 0065428 0065428 0006098 0000001 0065429 0065429 0006099 0000001 0065430 0065435 0006100 0000001 0065436 0065436 0006101 0000001 0065437 0065437 0006102 0000001 0065438 0065439 0006103 0000001 0065440 0065440 0006104 0000001 0065441 0065442 0006105 0000001 0065443 0065443 0006106 0000001 0065444 0065444 0006107 0000001 0065445 0065446 0006108 0000001 0065447 0065449 0006109 0000001 0065450 0065455 0006110 0000001 0065456 0065456 0006111 0000001 0065457 0065459 0006112 0000001 0065460 0065460 0006113 0000001 "
       \o "0065461 0065470 0006114 0000001 0065474 0065479 0006115 0000001 0065482 0065487 0006116 0000001 0065490 0065495 0006117 0000001 0065498 0065500 0006118 0000001 0065504 0065505 0006119 0000001 0065506 0065506 0006120 0000001 0065507 0065507 0006121 0000002 0065508 0065508 0006123 0000001 0065509 0065509 0006124 0000001 0065510 0065510 0006125 0000001 0065512 0065512 0006126 0000001 0065513 0065516 0006127 0000001 0065517 0065517 0006128 0000001 0065518 0065518 0006129 0000001 0067457 0067458 0006130 0000001 0067459 0067459 0006131 0000001 0067460 0067460 0006132 0000001 0067461 0067461 0006133 0000001 0067463 0067463 0006134 0000001 0067464 0067464 0006135 0000001 0067465 0067465 0006136 0000001 0067466 0067466 0006137 0000001 0067467 0067468 0006138 0000001 0067469 0067469 0006139 0000001 0067470 0067470 0006140 0000001 0067471 0067471 0006141 0000001 0067472 0067472 0006142 0000001 0067473 0067473 0006143 0000001 0067474 0067474 0006144 0000001 "
       \o "0067475 0067475 0006145 0000001 0067476 0067476 0006146 0000001 0067477 0067477 0006147 0000001 0067478 0067478 0006148 0000001 0067479 0067479 0006149 0000001 0067480 0067480 0006150 0000001 0067481 0067482 0006151 0000001 0067483 0067483 0006152 0000001 0067484 0067484 0006153 0000001 0067485 0067485 0006154 0000001 0067486 0067486 0006155 0000001 0067487 0067487 0006156 0000001 0067488 0067488 0006157 0000001 0067489 0067489 0006158 0000001 0067490 0067490 0006159 0000001 0067491 0067492 0006160 0000001 0067493 0067493 0006161 0000001 0067494 0067494 0006162 0000001 0067495 0067495 0006163 0000001 0067496 0067497 0006164 0000001 0067498 0067498 0006165 0000001 0067499 0067499 0006166 0000001 0067500 0067500 0006167 0000001 0067501 0067501 0006168 0000001 0067502 0067502 0006169 0000001 0067503 0067503 0006170 0000001 0067504 0067504 0006171 0000001 0067506 0067506 0006172 0000001 0067507 0067508 0006173 0000001 0067509 0067509 0006174 0000001 "
       \o "0067510 0067512 0006175 0000001 0067513 0067513 0006176 0000001 0067514 0067514 0006177 0000001 0069786 0069786 0006178 0000002 0069788 0069788 0006180 0000002 0069803 0069803 0006182 0000002 0069934 0069934 0006184 0000002 0069935 0069935 0006186 0000002 0070475 0070475 0006188 0000002 0070476 0070476 0006190 0000002 0070843 0070843 0006192 0000002 0070844 0070844 0006194 0000002 0070846 0070846 0006196 0000002 0071098 0071098 0006198 0000002 0071099 0071099 0006200 0000002 0071992 0071992 0006202 0000002 0119134 0119134 0006204 0000002 0119135 0119135 0006206 0000002 0119136 0119140 0006208 0000003 0119227 0119227 0006211 0000002 0119228 0119228 0006213 0000002 0119229 0119229 0006215 0000003 0119230 0119230 0006218 0000003 0119231 0119231 0006221 0000003 0119232 0119232 0006224 0000003 0119808 0119833 0006227 0000001 0119834 0119859 0006228 0000001 0119860 0119885 0006229 0000001 0119886 0119892 0006230 0000001 0119894 0119911 0006231 0000001 "
       \o "0119912 0119937 0006232 0000001 0119938 0119963 0006233 0000001 0119964 0119964 0006234 0000001 0119966 0119967 0006235 0000001 0119970 0119970 0006236 0000001 0119973 0119974 0006237 0000001 0119977 0119980 0006238 0000001 0119982 0119989 0006239 0000001 0119990 0119993 0006240 0000001 0119995 0119995 0006241 0000001 0119997 0120003 0006242 0000001 0120005 0120015 0006243 0000001 0120016 0120041 0006244 0000001 0120042 0120067 0006245 0000001 0120068 0120069 0006246 0000001 0120071 0120074 0006247 0000001 0120077 0120084 0006248 0000001 0120086 0120092 0006249 0000001 0120094 0120119 0006250 0000001 0120120 0120121 0006251 0000001 0120123 0120126 0006252 0000001 0120128 0120132 0006253 0000001 0120134 0120134 0006254 0000001 0120138 0120144 0006255 0000001 0120146 0120171 0006256 0000001 0120172 0120197 0006257 0000001 0120198 0120223 0006258 0000001 0120224 0120249 0006259 0000001 0120250 0120275 0006260 0000001 0120276 0120301 0006261 0000001 "
       \o "0120302 0120327 0006262 0000001 0120328 0120353 0006263 0000001 0120354 0120379 0006264 0000001 0120380 0120405 0006265 0000001 0120406 0120431 0006266 0000001 0120432 0120457 0006267 0000001 0120458 0120483 0006268 0000001 0120484 0120484 0006269 0000001 0120485 0120485 0006270 0000001 0120488 0120504 0006271 0000001 0120505 0120505 0006272 0000001 0120506 0120512 0006273 0000001 0120513 0120513 0006274 0000001 0120514 0120538 0006275 0000001 0120539 0120539 0006276 0000001 0120540 0120540 0006277 0000001 0120541 0120541 0006278 0000001 0120542 0120542 0006279 0000001 0120543 0120543 0006280 0000001 0120544 0120544 0006281 0000001 0120545 0120545 0006282 0000001 0120546 0120562 0006283 0000001 0120563 0120563 0006284 0000001 0120564 0120570 0006285 0000001 0120571 0120571 0006286 0000001 0120572 0120596 0006287 0000001 0120597 0120597 0006288 0000001 0120598 0120598 0006289 0000001 0120599 0120599 0006290 0000001 0120600 0120600 0006291 0000001 "
       \o "0120601 0120601 0006292 0000001 0120602 0120602 0006293 0000001 0120603 0120603 0006294 0000001 0120604 0120620 0006295 0000001 0120621 0120621 0006296 0000001 0120622 0120628 0006297 0000001 0120629 0120629 0006298 0000001 0120630 0120654 0006299 0000001 0120655 0120655 0006300 0000001 0120656 0120656 0006301 0000001 0120657 0120657 0006302 0000001 0120658 0120658 0006303 0000001 0120659 0120659 0006304 0000001 0120660 0120660 0006305 0000001 0120661 0120661 0006306 0000001 0120662 0120678 0006307 0000001 0120679 0120679 0006308 0000001 0120680 0120686 0006309 0000001 0120687 0120687 0006310 0000001 0120688 0120712 0006311 0000001 0120713 0120713 0006312 0000001 0120714 0120714 0006313 0000001 0120715 0120715 0006314 0000001 0120716 0120716 0006315 0000001 0120717 0120717 0006316 0000001 0120718 0120718 0006317 0000001 0120719 0120719 0006318 0000001 0120720 0120736 0006319 0000001 0120737 0120737 0006320 0000001 0120738 0120744 0006321 0000001 "
       \o "0120745 0120745 0006322 0000001 0120746 0120770 0006323 0000001 0120771 0120771 0006324 0000001 0120772 0120772 0006325 0000001 0120773 0120773 0006326 0000001 0120774 0120774 0006327 0000001 0120775 0120775 0006328 0000001 0120776 0120776 0006329 0000001 0120777 0120777 0006330 0000001 0120778 0120779 0006331 0000001 0120782 0120791 0006332 0000001 0120792 0120801 0006333 0000001 0120802 0120811 0006334 0000001 0120812 0120821 0006335 0000001 0120822 0120831 0006336 0000001 0126464 0126465 0006337 0000001 0126466 0126466 0006338 0000001 0126467 0126467 0006339 0000001 0126469 0126469 0006340 0000001 0126470 0126470 0006341 0000001 0126471 0126471 0006342 0000001 0126472 0126472 0006343 0000001 0126473 0126473 0006344 0000001 0126474 0126477 0006345 0000001 0126478 0126478 0006346 0000001 0126479 0126479 0006347 0000001 0126480 0126480 0006348 0000001 0126481 0126481 0006349 0000001 0126482 0126482 0006350 0000001 0126483 0126483 0006351 0000001 "
       \o "0126484 0126484 0006352 0000001 0126485 0126486 0006353 0000001 0126487 0126487 0006354 0000001 0126488 0126488 0006355 0000001 0126489 0126489 0006356 0000001 0126490 0126490 0006357 0000001 0126491 0126491 0006358 0000001 0126492 0126492 0006359 0000001 0126493 0126493 0006360 0000001 0126494 0126494 0006361 0000001 0126495 0126495 0006362 0000001 0126497 0126497 0006363 0000001 0126498 0126498 0006364 0000001 0126500 0126500 0006365 0000001 0126503 0126503 0006366 0000001 0126505 0126505 0006367 0000001 0126506 0126509 0006368 0000001 0126510 0126510 0006369 0000001 0126511 0126511 0006370 0000001 0126512 0126512 0006371 0000001 0126513 0126513 0006372 0000001 0126514 0126514 0006373 0000001 0126516 0126516 0006374 0000001 0126517 0126518 0006375 0000001 0126519 0126519 0006376 0000001 0126521 0126521 0006377 0000001 0126523 0126523 0006378 0000001 0126530 0126530 0006379 0000001 0126535 0126535 0006380 0000001 0126537 0126537 0006381 0000001 "
       \o "0126539 0126539 0006382 0000001 0126541 0126541 0006383 0000001 0126542 0126542 0006384 0000001 0126543 0126543 0006385 0000001 0126545 0126545 0006386 0000001 0126546 0126546 0006387 0000001 0126548 0126548 0006388 0000001 0126551 0126551 0006389 0000001 0126553 0126553 0006390 0000001 0126555 0126555 0006391 0000001 0126557 0126557 0006392 0000001 0126559 0126559 0006393 0000001 0126561 0126561 0006394 0000001 0126562 0126562 0006395 0000001 0126564 0126564 0006396 0000001 0126567 0126567 0006397 0000001 0126568 0126568 0006398 0000001 0126569 0126569 0006399 0000001 0126570 0126570 0006400 0000001 0126572 0126573 0006401 0000001 0126574 0126574 0006402 0000001 0126575 0126575 0006403 0000001 0126576 0126576 0006404 0000001 0126577 0126577 0006405 0000001 0126578 0126578 0006406 0000001 0126580 0126580 0006407 0000001 0126581 0126582 0006408 0000001 0126583 0126583 0006409 0000001 0126585 0126585 0006410 0000001 0126586 0126586 0006411 0000001 "
       \o "0126587 0126587 0006412 0000001 0126588 0126588 0006413 0000001 0126590 0126590 0006414 0000001 0126592 0126593 0006415 0000001 0126594 0126594 0006416 0000001 0126595 0126595 0006417 0000001 0126596 0126597 0006418 0000001 0126598 0126598 0006419 0000001 0126599 0126599 0006420 0000001 0126600 0126600 0006421 0000001 0126601 0126601 0006422 0000001 0126603 0126605 0006423 0000001 0126606 0126606 0006424 0000001 0126607 0126607 0006425 0000001 0126608 0126608 0006426 0000001 0126609 0126609 0006427 0000001 0126610 0126610 0006428 0000001 0126611 0126611 0006429 0000001 0126612 0126612 0006430 0000001 0126613 0126614 0006431 0000001 0126615 0126615 0006432 0000001 0126616 0126616 0006433 0000001 0126617 0126617 0006434 0000001 0126618 0126618 0006435 0000001 0126619 0126619 0006436 0000001 0126625 0126625 0006437 0000001 0126626 0126626 0006438 0000001 0126627 0126627 0006439 0000001 0126629 0126629 0006440 0000001 0126630 0126630 0006441 0000001 "
       \o "0126631 0126631 0006442 0000001 0126632 0126632 0006443 0000001 0126633 0126633 0006444 0000001 0126635 0126637 0006445 0000001 0126638 0126638 0006446 0000001 0126639 0126639 0006447 0000001 0126640 0126640 0006448 0000001 0126641 0126641 0006449 0000001 0126642 0126642 0006450 0000001 0126643 0126643 0006451 0000001 0126644 0126644 0006452 0000001 0126645 0126646 0006453 0000001 0126647 0126647 0006454 0000001 0126648 0126648 0006455 0000001 0126649 0126649 0006456 0000001 0126650 0126650 0006457 0000001 0126651 0126651 0006458 0000001 0127232 0127232 0006459 0000002 0127233 0127233 0006461 0000002 0127234 0127234 0006463 0000002 0127235 0127235 0006465 0000002 0127236 0127236 0006467 0000002 0127237 0127237 0006469 0000002 0127238 0127238 0006471 0000002 0127239 0127239 0006473 0000002 0127240 0127240 0006475 0000002 0127241 0127241 0006477 0000002 0127242 0127242 0006479 0000002 0127248 0127248 0006481 0000003 0127249 0127249 0006484 0000003 "
       \o "0127250 0127250 0006487 0000003 0127251 0127251 0006490 0000003 0127252 0127252 0006493 0000003 0127253 0127253 0006496 0000003 0127254 0127254 0006499 0000003 0127255 0127255 0006502 0000003 0127256 0127256 0006505 0000003 0127257 0127257 0006508 0000003 0127258 0127258 0006511 0000003 0127259 0127259 0006514 0000003 0127260 0127260 0006517 0000003 0127261 0127261 0006520 0000003 0127262 0127262 0006523 0000003 0127263 0127263 0006526 0000003 0127264 0127264 0006529 0000003 0127265 0127265 0006532 0000003 0127266 0127266 0006535 0000003 0127267 0127267 0006538 0000003 0127268 0127268 0006541 0000003 0127269 0127269 0006544 0000003 0127270 0127270 0006547 0000003 0127271 0127271 0006550 0000003 0127272 0127272 0006553 0000003 0127273 0127273 0006556 0000003 0127274 0127274 0006559 0000003 0127275 0127275 0006562 0000001 0127276 0127276 0006563 0000001 0127277 0127277 0006564 0000002 0127278 0127278 0006566 0000002 0127280 0127305 0006568 0000001 "
       \o "0127306 0127306 0006569 0000002 0127307 0127307 0006571 0000002 0127308 0127308 0006573 0000002 0127309 0127309 0006575 0000002 0127310 0127310 0006577 0000003 0127311 0127311 0006580 0000002 0127338 0127339 0006582 0000002 0127340 0127340 0006584 0000002 0127376 0127376 0006586 0000002 0127488 0127488 0006588 0000002 0127489 0127489 0006590 0000002 0127490 0127490 0006592 0000001 0127504 0127504 0006593 0000001 0127505 0127505 0006594 0000001 0127506 0127506 0006595 0000001 0127507 0127507 0006596 0000002 0127508 0127508 0006598 0000001 0127509 0127509 0006599 0000001 0127510 0127510 0006600 0000001 0127511 0127511 0006601 0000001 0127512 0127512 0006602 0000001 0127513 0127513 0006603 0000001 0127514 0127514 0006604 0000001 0127515 0127515 0006605 0000001 0127516 0127516 0006606 0000001 0127517 0127517 0006607 0000001 0127518 0127518 0006608 0000001 0127519 0127519 0006609 0000001 0127520 0127520 0006610 0000001 0127521 0127521 0006611 0000001 "
       \o "0127522 0127522 0006612 0000001 0127523 0127523 0006613 0000001 0127524 0127524 0006614 0000001 0127525 0127525 0006615 0000001 0127526 0127526 0006616 0000001 0127527 0127527 0006617 0000001 0127528 0127528 0006618 0000001 0127529 0127529 0006619 0000001 0127530 0127530 0006620 0000001 0127531 0127531 0006621 0000001 0127532 0127532 0006622 0000001 0127533 0127533 0006623 0000001 0127534 0127534 0006624 0000001 0127535 0127535 0006625 0000001 0127536 0127536 0006626 0000001 0127537 0127537 0006627 0000001 0127538 0127538 0006628 0000001 0127539 0127539 0006629 0000001 0127540 0127540 0006630 0000001 0127541 0127541 0006631 0000001 0127542 0127542 0006632 0000001 0127543 0127543 0006633 0000001 0127544 0127544 0006634 0000001 0127545 0127545 0006635 0000001 0127546 0127546 0006636 0000001 0127547 0127547 0006637 0000001 0127552 0127552 0006638 0000003 0127553 0127553 0006641 0000003 0127554 0127554 0006644 0000003 0127555 0127555 0006647 0000003 "
       \o "0127556 0127556 0006650 0000003 0127557 0127557 0006653 0000003 0127558 0127558 0006656 0000003 0127559 0127559 0006659 0000003 0127560 0127560 0006662 0000003 0127568 0127568 0006665 0000001 0127569 0127569 0006666 0000001 0130032 0130041 0006667 0000001 0194560 0194560 0006668 0000001 0194561 0194561 0006669 0000001 0194562 0194562 0006670 0000001 0194563 0194563 0006671 0000001 0194564 0194564 0006672 0000001 0194565 0194565 0006673 0000001 0194566 0194566 0006674 0000001 0194567 0194567 0006675 0000001 0194568 0194568 0006676 0000001 0194569 0194569 0006677 0000001 0194570 0194570 0006678 0000001 0194571 0194571 0006679 0000001 0194572 0194572 0006680 0000001 0194573 0194573 0006681 0000001 0194574 0194574 0006682 0000001 0194575 0194575 0006683 0000001 0194576 0194576 0006684 0000001 0194577 0194577 0006685 0000001 0194578 0194578 0006686 0000001 0194579 0194579 0006687 0000001 0194580 0194580 0006688 0000001 0194581 0194581 0006689 0000001 "
       \o "0194582 0194582 0006690 0000001 0194583 0194583 0006691 0000001 0194584 0194584 0006692 0000001 0194585 0194585 0006693 0000001 0194586 0194586 0006694 0000001 0194587 0194587 0006695 0000001 0194588 0194588 0006696 0000001 0194589 0194589 0006697 0000001 0194590 0194590 0006698 0000001 0194591 0194591 0006699 0000001 0194592 0194592 0006700 0000001 0194593 0194593 0006701 0000001 0194594 0194594 0006702 0000001 0194595 0194595 0006703 0000001 0194596 0194596 0006704 0000001 0194597 0194597 0006705 0000001 0194598 0194598 0006706 0000001 0194599 0194599 0006707 0000001 0194600 0194600 0006708 0000001 0194601 0194602 0006709 0000001 0194603 0194603 0006710 0000001 0194604 0194604 0006711 0000001 0194605 0194605 0006712 0000001 0194606 0194606 0006713 0000001 0194607 0194607 0006714 0000001 0194608 0194608 0006715 0000001 0194609 0194609 0006716 0000001 0194610 0194610 0006717 0000001 0194611 0194611 0006718 0000001 0194612 0194612 0006719 0000001 "
       \o "0194613 0194613 0006720 0000001 0194614 0194614 0006721 0000001 0194615 0194615 0006722 0000001 0194616 0194616 0006723 0000001 0194617 0194617 0006724 0000001 0194618 0194618 0006725 0000001 0194619 0194619 0006726 0000001 0194620 0194620 0006727 0000001 0194621 0194621 0006728 0000001 0194622 0194622 0006729 0000001 0194623 0194623 0006730 0000001 0194624 0194624 0006731 0000001 0194625 0194625 0006732 0000001 0194626 0194626 0006733 0000001 0194627 0194627 0006734 0000001 0194628 0194628 0006735 0000001 0194629 0194629 0006736 0000001 0194630 0194630 0006737 0000001 0194631 0194631 0006738 0000001 0194632 0194632 0006739 0000001 0194633 0194633 0006740 0000001 0194634 0194634 0006741 0000001 0194635 0194635 0006742 0000001 0194636 0194636 0006743 0000001 0194637 0194637 0006744 0000001 0194638 0194638 0006745 0000001 0194639 0194639 0006746 0000001 0194640 0194640 0006747 0000001 0194641 0194641 0006748 0000001 0194642 0194642 0006749 0000001 "
       \o "0194643 0194643 0006750 0000001 0194644 0194644 0006751 0000001 0194645 0194645 0006752 0000001 0194646 0194646 0006753 0000001 0194647 0194647 0006754 0000001 0194648 0194648 0006755 0000001 0194649 0194649 0006756 0000001 0194650 0194650 0006757 0000001 0194651 0194651 0006758 0000001 0194652 0194652 0006759 0000001 0194653 0194653 0006760 0000001 0194654 0194654 0006761 0000001 0194655 0194655 0006762 0000001 0194656 0194656 0006763 0000001 0194657 0194657 0006764 0000001 0194658 0194658 0006765 0000001 0194659 0194659 0006766 0000001 0194660 0194660 0006767 0000001 0194661 0194661 0006768 0000001 0194662 0194662 0006769 0000001 0194663 0194663 0006770 0000001 0194664 0194664 0006771 0000001 0194665 0194665 0006772 0000001 0194666 0194666 0006773 0000001 0194667 0194667 0006774 0000001 0194668 0194668 0006775 0000001 0194669 0194669 0006776 0000001 0194670 0194670 0006777 0000001 0194671 0194671 0006778 0000001 0194672 0194672 0006779 0000001 "
       \o "0194673 0194673 0006780 0000001 0194674 0194674 0006781 0000001 0194675 0194675 0006782 0000001 0194676 0194676 0006783 0000001 0194677 0194677 0006784 0000001 0194678 0194678 0006785 0000001 0194679 0194679 0006786 0000001 0194680 0194680 0006787 0000001 0194681 0194681 0006788 0000001 0194682 0194682 0006789 0000001 0194683 0194683 0006790 0000001 0194684 0194684 0006791 0000001 0194685 0194685 0006792 0000001 0194686 0194686 0006793 0000001 0194687 0194687 0006794 0000001 0194688 0194688 0006795 0000001 0194689 0194690 0006796 0000001 0194691 0194691 0006797 0000001 0194692 0194692 0006798 0000001 0194693 0194693 0006799 0000001 0194694 0194694 0006800 0000001 0194695 0194695 0006801 0000001 0194696 0194696 0006802 0000001 0194697 0194697 0006803 0000001 0194698 0194698 0006804 0000001 0194699 0194699 0006805 0000001 0194700 0194700 0006806 0000001 0194701 0194701 0006807 0000001 0194702 0194702 0006808 0000001 0194703 0194703 0006809 0000001 "
       \o "0194704 0194704 0006810 0000001 0194705 0194705 0006811 0000001 0194706 0194706 0006812 0000001 0194707 0194707 0006813 0000001 0194708 0194708 0006814 0000001 0194709 0194709 0006815 0000001 0194710 0194710 0006816 0000001 0194711 0194711 0006817 0000001 0194712 0194712 0006818 0000001 0194713 0194713 0006819 0000001 0194714 0194714 0006820 0000001 0194715 0194715 0006821 0000001 0194716 0194716 0006822 0000001 0194717 0194717 0006823 0000001 0194718 0194718 0006824 0000001 0194719 0194719 0006825 0000001 0194720 0194720 0006826 0000001 0194721 0194721 0006827 0000001 0194722 0194722 0006828 0000001 0194723 0194723 0006829 0000001 0194724 0194724 0006830 0000001 0194725 0194725 0006831 0000001 0194726 0194726 0006832 0000001 0194727 0194727 0006833 0000001 0194728 0194728 0006834 0000001 0194729 0194729 0006835 0000001 0194730 0194730 0006836 0000001 0194731 0194731 0006837 0000001 0194732 0194732 0006838 0000001 0194733 0194733 0006839 0000001 "
       \o "0194734 0194734 0006840 0000001 0194735 0194735 0006841 0000001 0194736 0194736 0006842 0000001 0194737 0194737 0006843 0000001 0194738 0194738 0006844 0000001 0194739 0194739 0006845 0000001 0194740 0194740 0006846 0000001 0194741 0194741 0006847 0000001 0194742 0194742 0006848 0000001 0194743 0194743 0006849 0000001 0194744 0194744 0006850 0000001 0194745 0194745 0006851 0000001 0194746 0194746 0006852 0000001 0194747 0194747 0006853 0000001 0194748 0194748 0006854 0000001 0194749 0194749 0006855 0000001 0194750 0194750 0006856 0000001 0194751 0194751 0006857 0000001 0194752 0194752 0006858 0000001 0194753 0194753 0006859 0000001 0194754 0194754 0006860 0000001 0194755 0194755 0006861 0000001 0194756 0194756 0006862 0000001 0194757 0194757 0006863 0000001 0194758 0194758 0006864 0000001 0194759 0194759 0006865 0000001 0194760 0194760 0006866 0000001 0194761 0194761 0006867 0000001 0194762 0194762 0006868 0000001 0194763 0194763 0006869 0000001 "
       \o "0194764 0194764 0006870 0000001 0194765 0194765 0006871 0000001 0194766 0194766 0006872 0000001 0194767 0194767 0006873 0000001 0194768 0194768 0006874 0000001 0194769 0194769 0006875 0000001 0194770 0194770 0006876 0000001 0194771 0194771 0006877 0000001 0194772 0194772 0006878 0000001 0194773 0194773 0006879 0000001 0194774 0194774 0006880 0000001 0194775 0194775 0006881 0000001 0194776 0194776 0006882 0000001 0194777 0194777 0006883 0000001 0194778 0194778 0006884 0000001 0194779 0194779 0006885 0000001 0194780 0194780 0006886 0000001 0194781 0194781 0006887 0000001 0194782 0194782 0006888 0000001 0194783 0194783 0006889 0000001 0194784 0194784 0006890 0000001 0194785 0194785 0006891 0000001 0194786 0194786 0006892 0000001 0194787 0194787 0006893 0000001 0194788 0194788 0006894 0000001 0194789 0194789 0006895 0000001 0194790 0194790 0006896 0000001 0194791 0194791 0006897 0000001 0194792 0194792 0006898 0000001 0194793 0194793 0006899 0000001 "
       \o "0194794 0194794 0006900 0000001 0194795 0194795 0006901 0000001 0194796 0194796 0006902 0000001 0194797 0194797 0006903 0000001 0194798 0194798 0006904 0000001 0194799 0194799 0006905 0000001 0194800 0194800 0006906 0000001 0194801 0194801 0006907 0000001 0194802 0194802 0006908 0000001 0194803 0194803 0006909 0000001 0194804 0194804 0006910 0000001 0194805 0194806 0006911 0000001 0194807 0194807 0006912 0000001 0194808 0194808 0006913 0000001 0194809 0194809 0006914 0000001 0194810 0194810 0006915 0000001 0194811 0194811 0006916 0000001 0194812 0194812 0006917 0000001 0194813 0194813 0006918 0000001 0194814 0194814 0006919 0000001 0194815 0194815 0006920 0000001 0194816 0194816 0006921 0000001 0194817 0194817 0006922 0000001 0194818 0194818 0006923 0000001 0194819 0194819 0006924 0000001 0194820 0194820 0006925 0000001 0194821 0194821 0006926 0000001 0194822 0194822 0006927 0000001 0194823 0194823 0006928 0000001 0194824 0194824 0006929 0000001 "
       \o "0194825 0194825 0006930 0000001 0194826 0194826 0006931 0000001 0194827 0194827 0006932 0000001 0194828 0194828 0006933 0000001 0194829 0194829 0006934 0000001 0194830 0194830 0006935 0000001 0194831 0194831 0006936 0000001 0194832 0194832 0006937 0000001 0194833 0194833 0006938 0000001 0194834 0194834 0006939 0000001 0194835 0194835 0006940 0000001 0194836 0194836 0006941 0000001 0194837 0194837 0006942 0000001 0194838 0194838 0006943 0000001 0194839 0194839 0006944 0000001 0194840 0194840 0006945 0000001 0194841 0194841 0006946 0000001 0194842 0194842 0006947 0000001 0194843 0194843 0006948 0000001 0194844 0194844 0006949 0000001 0194845 0194845 0006950 0000001 0194846 0194846 0006951 0000001 0194847 0194847 0006952 0000001 0194848 0194848 0006953 0000001 0194849 0194849 0006954 0000001 0194850 0194850 0006955 0000001 0194851 0194851 0006956 0000001 0194852 0194852 0006957 0000001 0194853 0194853 0006958 0000001 0194854 0194854 0006959 0000001 "
       \o "0194855 0194855 0006960 0000001 0194856 0194856 0006961 0000001 0194857 0194857 0006962 0000001 0194858 0194858 0006963 0000001 0194859 0194859 0006964 0000001 0194860 0194860 0006965 0000001 0194861 0194861 0006966 0000001 0194862 0194862 0006967 0000001 0194863 0194863 0006968 0000001 0194864 0194864 0006969 0000001 0194865 0194865 0006970 0000001 0194866 0194866 0006971 0000001 0194867 0194867 0006972 0000001 0194868 0194868 0006973 0000001 0194869 0194869 0006974 0000001 0194870 0194870 0006975 0000001 0194871 0194871 0006976 0000001 0194872 0194872 0006977 0000001 0194873 0194873 0006978 0000001 0194874 0194874 0006979 0000001 0194875 0194875 0006980 0000001 0194876 0194876 0006981 0000001 0194877 0194877 0006982 0000001 0194878 0194878 0006983 0000001 0194879 0194879 0006984 0000001 0194880 0194880 0006985 0000001 0194881 0194881 0006986 0000001 0194882 0194882 0006987 0000001 0194883 0194883 0006988 0000001 0194884 0194884 0006989 0000001 "
       \o "0194885 0194886 0006990 0000001 0194887 0194887 0006991 0000001 0194888 0194888 0006992 0000001 0194889 0194889 0006993 0000001 0194890 0194890 0006994 0000001 0194891 0194891 0006995 0000001 0194892 0194892 0006996 0000001 0194893 0194893 0006997 0000001 0194894 0194894 0006998 0000001 0194895 0194895 0006999 0000001 0194896 0194896 0007000 0000001 0194897 0194897 0007001 0000001 0194898 0194898 0007002 0000001 0194899 0194899 0007003 0000001 0194900 0194900 0007004 0000001 0194901 0194901 0007005 0000001 0194902 0194902 0007006 0000001 0194903 0194903 0007007 0000001 0194904 0194904 0007008 0000001 0194905 0194905 0007009 0000001 0194906 0194906 0007010 0000001 0194907 0194907 0007011 0000001 0194908 0194908 0007012 0000001 0194909 0194909 0007013 0000001 0194910 0194910 0007014 0000001 0194911 0194911 0007015 0000001 0194912 0194912 0007016 0000001 0194913 0194913 0007017 0000001 0194914 0194914 0007018 0000001 0194915 0194915 0007019 0000001 "
       \o "0194916 0194916 0007020 0000001 0194917 0194917 0007021 0000001 0194918 0194918 0007022 0000001 0194919 0194919 0007023 0000001 0194920 0194920 0007024 0000001 0194921 0194921 0007025 0000001 0194922 0194922 0007026 0000001 0194923 0194923 0007027 0000001 0194924 0194924 0007028 0000001 0194925 0194925 0007029 0000001 0194926 0194926 0007030 0000001 0194927 0194927 0007031 0000001 0194928 0194928 0007032 0000001 0194929 0194929 0007033 0000001 0194930 0194930 0007034 0000001 0194931 0194931 0007035 0000001 0194932 0194932 0007036 0000001 0194933 0194933 0007037 0000001 0194934 0194934 0007038 0000001 0194935 0194935 0007039 0000001 0194936 0194936 0007040 0000001 0194937 0194937 0007041 0000001 0194938 0194938 0007042 0000001 0194939 0194939 0007043 0000001 0194940 0194940 0007044 0000001 0194941 0194941 0007045 0000001 0194942 0194942 0007046 0000001 0194943 0194943 0007047 0000001 0194944 0194944 0007048 0000001 0194945 0194945 0007049 0000001 "
       \o "0194946 0194946 0007050 0000001 0194947 0194947 0007051 0000001 0194948 0194948 0007052 0000001 0194949 0194949 0007053 0000001 0194950 0194950 0007054 0000001 0194951 0194951 0007055 0000001 0194952 0194952 0007056 0000001 0194953 0194953 0007057 0000001 0194954 0194954 0007058 0000001 0194955 0194955 0007059 0000001 0194956 0194956 0007060 0000001 0194957 0194957 0007061 0000001 0194958 0194958 0007062 0000001 0194959 0194959 0007063 0000001 0194960 0194960 0007064 0000001 0194961 0194961 0007065 0000001 0194962 0194962 0007066 0000001 0194963 0194963 0007067 0000001 0194964 0194964 0007068 0000001 0194965 0194965 0007069 0000001 0194966 0194966 0007070 0000001 0194967 0194967 0007071 0000001 0194968 0194968 0007072 0000001 0194969 0194969 0007073 0000001 0194970 0194970 0007074 0000001 0194971 0194971 0007075 0000001 0194972 0194972 0007076 0000001 0194973 0194973 0007077 0000001 0194974 0194974 0007078 0000001 0194975 0194975 0007079 0000001 "
       \o "0194976 0194976 0007080 0000001 0194977 0194977 0007081 0000001 0194978 0194978 0007082 0000001 0194979 0194979 0007083 0000001 0194980 0194980 0007084 0000001 0194981 0194981 0007085 0000001 0194982 0194982 0007086 0000001 0194983 0194983 0007087 0000001 0194984 0194984 0007088 0000001 0194985 0194985 0007089 0000001 0194986 0194986 0007090 0000001 0194987 0194987 0007091 0000001 0194988 0194988 0007092 0000001 0194989 0194989 0007093 0000001 0194990 0194990 0007094 0000001 0194991 0194991 0007095 0000001 0194992 0194992 0007096 0000001 0194993 0194993 0007097 0000001 0194994 0194994 0007098 0000001 0194995 0194995 0007099 0000001 0194996 0194996 0007100 0000001 0194997 0194997 0007101 0000001 0194998 0194998 0007102 0000001 0194999 0194999 0007103 0000001 0195000 0195000 0007104 0000001 0195001 0195001 0007105 0000001 0195002 0195002 0007106 0000001 0195003 0195003 0007107 0000001 0195004 0195004 0007108 0000001 0195005 0195005 0007109 0000001 "
       \o "0195006 0195006 0007110 0000001 0195007 0195007 0007111 0000001 0195008 0195008 0007112 0000001 0195009 0195009 0007113 0000001 0195010 0195010 0007114 0000001 0195011 0195011 0007115 0000001 0195012 0195012 0007116 0000001 0195013 0195013 0007117 0000001 0195014 0195014 0007118 0000001 0195015 0195015 0007119 0000001 0195016 0195016 0007120 0000001 0195017 0195017 0007121 0000001 0195018 0195018 0007122 0000001 0195019 0195019 0007123 0000001 0195020 0195020 0007124 0000001 0195021 0195021 0007125 0000001 0195022 0195022 0007126 0000001 0195023 0195023 0007127 0000001 0195024 0195024 0007128 0000001 0195025 0195025 0007129 0000001 0195026 0195026 0007130 0000001 0195027 0195027 0007131 0000001 0195028 0195028 0007132 0000001 0195029 0195029 0007133 0000001 0195030 0195030 0007134 0000001 0195031 0195031 0007135 0000001 0195032 0195032 0007136 0000001 0195033 0195033 0007137 0000001 0195034 0195034 0007138 0000001 0195035 0195035 0007139 0000001 "
       \o "0195036 0195036 0007140 0000001 0195037 0195037 0007141 0000001 0195038 0195038 0007142 0000001 0195039 0195039 0007143 0000001 0195040 0195040 0007144 0000001 0195041 0195041 0007145 0000001 0195042 0195042 0007146 0000001 0195043 0195043 0007147 0000001 0195044 0195044 0007148 0000001 0195045 0195045 0007149 0000001 0195046 0195046 0007150 0000001 0195047 0195047 0007151 0000001 0195048 0195049 0007152 0000001 0195050 0195050 0007153 0000001 0195051 0195051 0007154 0000001 0195052 0195052 0007155 0000001 0195053 0195053 0007156 0000001 0195054 0195054 0007157 0000001 0195055 0195055 0007158 0000001 0195056 0195056 0007159 0000001 0195057 0195057 0007160 0000001 0195058 0195058 0007161 0000001 0195059 0195059 0007162 0000001 0195060 0195060 0007163 0000001 0195061 0195061 0007164 0000001 0195062 0195062 0007165 0000001 0195063 0195063 0007166 0000001 0195064 0195064 0007167 0000001 0195065 0195065 0007168 0000001 0195066 0195066 0007169 0000001 "
       \o "0195067 0195067 0007170 0000001 0195068 0195068 0007171 0000001 0195069 0195069 0007172 0000001 0195070 0195070 0007173 0000001 0195071 0195071 0007174 0000001 0195072 0195072 0007175 0000001 0195073 0195073 0007176 0000001 0195074 0195074 0007177 0000001 0195075 0195075 0007178 0000001 0195076 0195076 0007179 0000001 0195077 0195077 0007180 0000001 0195078 0195078 0007181 0000001 0195079 0195079 0007182 0000001 0195080 0195080 0007183 0000001 0195081 0195081 0007184 0000001 0195082 0195082 0007185 0000001 0195083 0195083 0007186 0000001 0195084 0195084 0007187 0000001 0195085 0195085 0007188 0000001 0195086 0195086 0007189 0000001 0195087 0195087 0007190 0000001 0195088 0195088 0007191 0000001 0195089 0195089 0007192 0000001 0195090 0195090 0007193 0000001 0195091 0195091 0007194 0000001 0195092 0195092 0007195 0000001 0195093 0195093 0007196 0000001 0195094 0195094 0007197 0000001 0195095 0195095 0007198 0000001 0195096 0195096 0007199 0000001 "
       \o "0195097 0195097 0007200 0000001 0195098 0195098 0007201 0000001 0195099 0195099 0007202 0000001 0195100 0195100 0007203 0000001 0195101 0195101 0007204 0000001",
       4)

\* The canonical compositions: <<first, second, composite>>
ComposePairs ==
  Rows("0000060 0000824 0008814 0000061 0000824 0008800 0000062 0000824 0008815 0000065 0000768 0000192 0000065 0000769 0000193 0000065 0000770 0000194 0000065 0000771 0000195 0000065 0000772 0000256 0000065 0000774 0000258 0000065 0000775 0000550 0000065 0000776 0000196 0000065 0000777 0007842 0000065 0000778 0000197 0000065 0000780 0000461 0000065 0000783 0000512 0000065 0000785 0000514 0000065 0000803 0007840 0000065 0000805 0007680 0000065 0000808 0000260 0000066 0000775 0007682 0000066 0000803 0007684 0000066 0000817 0007686 0000067 0000769 0000262 0000067 0000770 0000264 0000067 0000775 0000266 0000067 0000780 0000268 0000067 0000807 0000199 0000068 0000775 0007690 0000068 0000780 0000270 0000068 0000803 0007692 0000068 0000807 0007696 0000068 0000813 0007698 0000068 0000817 0007694 0000069 0000768 0000200 0000069 0000769 0000201 0000069 0000770 0000202 0000069 0000771 0007868 0000069 0000772 0000274 0000069 0000774 0000276 0000069 0000775 0000278 "
       \o "0000069 0000776 0000203 0000069 0000777 0007866 0000069 0000780 0000282 0000069 0000783 0000516 0000069 0000785 0000518 0000069 0000803 0007864 0000069 0000807 0000552 0000069 0000808 0000280 0000069 0000813 0007704 0000069 0000816 0007706 0000070 0000775 0007710 0000071 0000769 0000500 0000071 0000770 0000284 0000071 0000772 0007712 0000071 0000774 0000286 0000071 0000775 0000288 0000071 0000780 0000486 0000071 0000807 0000290 0000072 0000770 0000292 0000072 0000775 0007714 0000072 0000776 0007718 0000072 0000780 0000542 0000072 0000803 0007716 0000072 0000807 0007720 0000072 0000814 0007722 0000073 0000768 0000204 0000073 0000769 0000205 0000073 0000770 0000206 0000073 0000771 0000296 0000073 0000772 0000298 0000073 0000774 0000300 0000073 0000775 0000304 0000073 0000776 0000207 0000073 0000777 0007880 0000073 0000780 0000463 0000073 0000783 0000520 0000073 0000785 0000522 0000073 0000803 0007882 0000073 0000808 0000302 0000073 0000816 0007724 "
       \o "0000074 0000770 0000308 0000075 0000769 0007728 0000075 0000780 0000488 0000075 0000803 0007730 0000075 0000807 0000310 0000075 0000817 0007732 0000076 0000769 0000313 0000076 0000780 0000317 0000076 0000803 0007734 0000076 0000807 0000315 0000076 0000813 0007740 0000076 0000817 0007738 0000077 0000769 0007742 0000077 0000775 0007744 0000077 0000803 0007746 0000078 0000768 0000504 0000078 0000769 0000323 0000078 0000771 0000209 0000078 0000775 0007748 0000078 0000780 0000327 0000078 0000803 0007750 0000078 0000807 0000325 0000078 0000813 0007754 0000078 0000817 0007752 0000079 0000768 0000210 0000079 0000769 0000211 0000079 0000770 0000212 0000079 0000771 0000213 0000079 0000772 0000332 0000079 0000774 0000334 0000079 0000775 0000558 0000079 0000776 0000214 0000079 0000777 0007886 0000079 0000779 0000336 0000079 0000780 0000465 0000079 0000783 0000524 0000079 0000785 0000526 0000079 0000795 0000416 0000079 0000803 0007884 0000079 0000808 0000490 "
       \o "0000080 0000769 0007764 0000080 0000775 0007766 0000082 0000769 0000340 0000082 0000775 0007768 0000082 0000780 0000344 0000082 0000783 0000528 0000082 0000785 0000530 0000082 0000803 0007770 0000082 0000807 0000342 0000082 0000817 0007774 0000083 0000769 0000346 0000083 0000770 0000348 0000083 0000775 0007776 0000083 0000780 0000352 0000083 0000803 0007778 0000083 0000806 0000536 0000083 0000807 0000350 0000084 0000775 0007786 0000084 0000780 0000356 0000084 0000803 0007788 0000084 0000806 0000538 0000084 0000807 0000354 0000084 0000813 0007792 0000084 0000817 0007790 0000085 0000768 0000217 0000085 0000769 0000218 0000085 0000770 0000219 0000085 0000771 0000360 0000085 0000772 0000362 0000085 0000774 0000364 0000085 0000776 0000220 0000085 0000777 0007910 0000085 0000778 0000366 0000085 0000779 0000368 0000085 0000780 0000467 0000085 0000783 0000532 0000085 0000785 0000534 0000085 0000795 0000431 0000085 0000803 0007908 0000085 0000804 0007794 "
       \o "0000085 0000808 0000370 0000085 0000813 0007798 0000085 0000816 0007796 0000086 0000771 0007804 0000086 0000803 0007806 0000087 0000768 0007808 0000087 0000769 0007810 0000087 0000770 0000372 0000087 0000775 0007814 0000087 0000776 0007812 0000087 0000803 0007816 0000088 0000775 0007818 0000088 0000776 0007820 0000089 0000768 0007922 0000089 0000769 0000221 0000089 0000770 0000374 0000089 0000771 0007928 0000089 0000772 0000562 0000089 0000775 0007822 0000089 0000776 0000376 0000089 0000777 0007926 0000089 0000803 0007924 0000090 0000769 0000377 0000090 0000770 0007824 0000090 0000775 0000379 0000090 0000780 0000381 0000090 0000803 0007826 0000090 0000817 0007828 0000097 0000768 0000224 0000097 0000769 0000225 0000097 0000770 0000226 0000097 0000771 0000227 0000097 0000772 0000257 0000097 0000774 0000259 0000097 0000775 0000551 0000097 0000776 0000228 0000097 0000777 0007843 0000097 0000778 0000229 0000097 0000780 0000462 0000097 0000783 0000513 "
       \o "0000097 0000785 0000515 0000097 0000803 0007841 0000097 0000805 0007681 0000097 0000808 0000261 0000098 0000775 0007683 0000098 0000803 0007685 0000098 0000817 0007687 0000099 0000769 0000263 0000099 0000770 0000265 0000099 0000775 0000267 0000099 0000780 0000269 0000099 0000807 0000231 0000100 0000775 0007691 0000100 0000780 0000271 0000100 0000803 0007693 0000100 0000807 0007697 0000100 0000813 0007699 0000100 0000817 0007695 0000101 0000768 0000232 0000101 0000769 0000233 0000101 0000770 0000234 0000101 0000771 0007869 0000101 0000772 0000275 0000101 0000774 0000277 0000101 0000775 0000279 0000101 0000776 0000235 0000101 0000777 0007867 0000101 0000780 0000283 0000101 0000783 0000517 0000101 0000785 0000519 0000101 0000803 0007865 0000101 0000807 0000553 0000101 0000808 0000281 0000101 0000813 0007705 0000101 0000816 0007707 0000102 0000775 0007711 0000103 0000769 0000501 0000103 0000770 0000285 0000103 0000772 0007713 0000103 0000774 0000287 "
       \o "0000103 0000775 0000289 0000103 0000780 0000487 0000103 0000807 0000291 0000104 0000770 0000293 0000104 0000775 0007715 0000104 0000776 0007719 0000104 0000780 0000543 0000104 0000803 0007717 0000104 0000807 0007721 0000104 0000814 0007723 0000104 0000817 0007830 0000105 0000768 0000236 0000105 0000769 0000237 0000105 0000770 0000238 0000105 0000771 0000297 0000105 0000772 0000299 0000105 0000774 0000301 0000105 0000776 0000239 0000105 0000777 0007881 0000105 0000780 0000464 0000105 0000783 0000521 0000105 0000785 0000523 0000105 0000803 0007883 0000105 0000808 0000303 0000105 0000816 0007725 0000106 0000770 0000309 0000106 0000780 0000496 0000107 0000769 0007729 0000107 0000780 0000489 0000107 0000803 0007731 0000107 0000807 0000311 0000107 0000817 0007733 0000108 0000769 0000314 0000108 0000780 0000318 0000108 0000803 0007735 0000108 0000807 0000316 0000108 0000813 0007741 0000108 0000817 0007739 0000109 0000769 0007743 0000109 0000775 0007745 "
       \o "0000109 0000803 0007747 0000110 0000768 0000505 0000110 0000769 0000324 0000110 0000771 0000241 0000110 0000775 0007749 0000110 0000780 0000328 0000110 0000803 0007751 0000110 0000807 0000326 0000110 0000813 0007755 0000110 0000817 0007753 0000111 0000768 0000242 0000111 0000769 0000243 0000111 0000770 0000244 0000111 0000771 0000245 0000111 0000772 0000333 0000111 0000774 0000335 0000111 0000775 0000559 0000111 0000776 0000246 0000111 0000777 0007887 0000111 0000779 0000337 0000111 0000780 0000466 0000111 0000783 0000525 0000111 0000785 0000527 0000111 0000795 0000417 0000111 0000803 0007885 0000111 0000808 0000491 0000112 0000769 0007765 0000112 0000775 0007767 0000114 0000769 0000341 0000114 0000775 0007769 0000114 0000780 0000345 0000114 0000783 0000529 0000114 0000785 0000531 0000114 0000803 0007771 0000114 0000807 0000343 0000114 0000817 0007775 0000115 0000769 0000347 0000115 0000770 0000349 0000115 0000775 0007777 0000115 0000780 0000353 "
       \o "0000115 0000803 0007779 0000115 0000806 0000537 0000115 0000807 0000351 0000116 0000775 0007787 0000116 0000776 0007831 0000116 0000780 0000357 0000116 0000803 0007789 0000116 0000806 0000539 0000116 0000807 0000355 0000116 0000813 0007793 0000116 0000817 0007791 0000117 0000768 0000249 0000117 0000769 0000250 0000117 0000770 0000251 0000117 0000771 0000361 0000117 0000772 0000363 0000117 0000774 0000365 0000117 0000776 0000252 0000117 0000777 0007911 0000117 0000778 0000367 0000117 0000779 0000369 0000117 0000780 0000468 0000117 0000783 0000533 0000117 0000785 0000535 0000117 0000795 0000432 0000117 0000803 0007909 0000117 0000804 0007795 0000117 0000808 0000371 0000117 0000813 0007799 0000117 0000816 0007797 0000118 0000771 0007805 0000118 0000803 0007807 0000119 0000768 0007809 0000119 0000769 0007811 0000119 0000770 0000373 0000119 0000775 0007815 0000119 0000776 0007813 0000119 0000778 0007832 0000119 0000803 0007817 0000120 0000775 0007819 "
       \o "0000120 0000776 0007821 0000121 0000768 0007923 0000121 0000769 0000253 0000121 0000770 0000375 0000121 0000771 0007929 0000121 0000772 0000563 0000121 0000775 0007823 0000121 0000776 0000255 0000121 0000777 0007927 0000121 0000778 0007833 0000121 0000803 0007925 0000122 0000769 0000378 0000122 0000770 0007825 0000122 0000775 0000380 0000122 0000780 0000382 0000122 0000803 0007827 0000122 0000817 0007829 0000168 0000768 0008173 0000168 0000769 0000901 0000168 0000834 0008129 0000194 0000768 0007846 0000194 0000769 0007844 0000194 0000771 0007850 0000194 0000777 0007848 0000196 0000772 0000478 0000197 0000769 0000506 0000198 0000769 0000508 0000198 0000772 0000482 0000199 0000769 0007688 0000202 0000768 0007872 0000202 0000769 0007870 0000202 0000771 0007876 0000202 0000777 0007874 0000207 0000769 0007726 0000212 0000768 0007890 0000212 0000769 0007888 0000212 0000771 0007894 0000212 0000777 0007892 0000213 0000769 0007756 0000213 0000772 0000556 "
       \o "0000213 0000776 0007758 0000214 0000772 0000554 0000216 0000769 0000510 0000220 0000768 0000475 0000220 0000769 0000471 0000220 0000772 0000469 0000220 0000780 0000473 0000226 0000768 0007847 0000226 0000769 0007845 0000226 0000771 0007851 0000226 0000777 0007849 0000228 0000772 0000479 0000229 0000769 0000507 0000230 0000769 0000509 0000230 0000772 0000483 0000231 0000769 0007689 0000234 0000768 0007873 0000234 0000769 0007871 0000234 0000771 0007877 0000234 0000777 0007875 0000239 0000769 0007727 0000244 0000768 0007891 0000244 0000769 0007889 0000244 0000771 0007895 0000244 0000777 0007893 0000245 0000769 0007757 0000245 0000772 0000557 0000245 0000776 0007759 0000246 0000772 0000555 0000248 0000769 0000511 0000252 0000768 0000476 0000252 0000769 0000472 0000252 0000772 0000470 0000252 0000780 0000474 0000258 0000768 0007856 0000258 0000769 0007854 0000258 0000771 0007860 0000258 0000777 0007858 0000259 0000768 0007857 0000259 0000769 0007855 "
       \o "0000259 0000771 0007861 0000259 0000777 0007859 0000274 0000768 0007700 0000274 0000769 0007702 0000275 0000768 0007701 0000275 0000769 0007703 0000332 0000768 0007760 0000332 0000769 0007762 0000333 0000768 0007761 0000333 0000769 0007763 0000346 0000775 0007780 0000347 0000775 0007781 0000352 0000775 0007782 0000353 0000775 0007783 0000360 0000769 0007800 0000361 0000769 0007801 0000362 0000776 0007802 0000363 0000776 0007803 0000383 0000775 0007835 0000416 0000768 0007900 0000416 0000769 0007898 0000416 0000771 0007904 0000416 0000777 0007902 0000416 0000803 0007906 0000417 0000768 0007901 0000417 0000769 0007899 0000417 0000771 0007905 0000417 0000777 0007903 0000417 0000803 0007907 0000431 0000768 0007914 0000431 0000769 0007912 0000431 0000771 0007918 0000431 0000777 0007916 0000431 0000803 0007920 0000432 0000768 0007915 0000432 0000769 0007913 0000432 0000771 0007919 0000432 0000777 0007917 0000432 0000803 0007921 0000439 0000780 0000494 "
       \o "0000490 0000772 0000492 0000491 0000772 0000493 0000550 0000772 0000480 0000551 0000772 0000481 0000552 0000774 0007708 0000553 0000774 0007709 0000558 0000772 0000560 0000559 0000772 0000561 0000658 0000780 0000495 0000913 0000768 0008122 0000913 0000769 0000902 0000913 0000772 0008121 0000913 0000774 0008120 0000913 0000787 0007944 0000913 0000788 0007945 0000913 0000837 0008124 0000917 0000768 0008136 0000917 0000769 0000904 0000917 0000787 0007960 0000917 0000788 0007961 0000919 0000768 0008138 0000919 0000769 0000905 0000919 0000787 0007976 0000919 0000788 0007977 0000919 0000837 0008140 0000921 0000768 0008154 0000921 0000769 0000906 0000921 0000772 0008153 0000921 0000774 0008152 0000921 0000776 0000938 0000921 0000787 0007992 0000921 0000788 0007993 0000927 0000768 0008184 0000927 0000769 0000908 0000927 0000787 0008008 0000927 0000788 0008009 0000929 0000788 0008172 0000933 0000768 0008170 0000933 0000769 0000910 0000933 0000772 0008169 "
       \o "0000933 0000774 0008168 0000933 0000776 0000939 0000933 0000788 0008025 0000937 0000768 0008186 0000937 0000769 0000911 0000937 0000787 0008040 0000937 0000788 0008041 0000937 0000837 0008188 0000940 0000837 0008116 0000942 0000837 0008132 0000945 0000768 0008048 0000945 0000769 0000940 0000945 0000772 0008113 0000945 0000774 0008112 0000945 0000787 0007936 0000945 0000788 0007937 0000945 0000834 0008118 0000945 0000837 0008115 0000949 0000768 0008050 0000949 0000769 0000941 0000949 0000787 0007952 0000949 0000788 0007953 0000951 0000768 0008052 0000951 0000769 0000942 0000951 0000787 0007968 0000951 0000788 0007969 0000951 0000834 0008134 0000951 0000837 0008131 0000953 0000768 0008054 0000953 0000769 0000943 0000953 0000772 0008145 0000953 0000774 0008144 0000953 0000776 0000970 0000953 0000787 0007984 0000953 0000788 0007985 0000953 0000834 0008150 0000959 0000768 0008056 0000959 0000769 0000972 0000959 0000787 0008000 0000959 0000788 0008001 "
       \o "0000961 0000787 0008164 0000961 0000788 0008165 0000965 0000768 0008058 0000965 0000769 0000973 0000965 0000772 0008161 0000965 0000774 0008160 0000965 0000776 0000971 0000965 0000787 0008016 0000965 0000788 0008017 0000965 0000834 0008166 0000969 0000768 0008060 0000969 0000769 0000974 0000969 0000787 0008032 0000969 0000788 0008033 0000969 0000834 0008182 0000969 0000837 0008179 0000970 0000768 0008146 0000970 0000769 0000912 0000970 0000834 0008151 0000971 0000768 0008162 0000971 0000769 0000944 0000971 0000834 0008167 0000974 0000837 0008180 0000978 0000769 0000979 0000978 0000776 0000980 0001030 0000776 0001031 0001040 0000774 0001232 0001040 0000776 0001234 0001043 0000769 0001027 0001045 0000768 0001024 0001045 0000774 0001238 0001045 0000776 0001025 0001046 0000774 0001217 0001046 0000776 0001244 0001047 0000776 0001246 0001048 0000768 0001037 0001048 0000772 0001250 0001048 0000774 0001049 0001048 0000776 0001252 0001050 0000769 0001036 "
       \o "0001054 0000776 0001254 0001059 0000772 0001262 0001059 0000774 0001038 0001059 0000776 0001264 0001059 0000779 0001266 0001063 0000776 0001268 0001067 0000776 0001272 0001069 0000776 0001260 0001072 0000774 0001233 0001072 0000776 0001235 0001075 0000769 0001107 0001077 0000768 0001104 0001077 0000774 0001239 0001077 0000776 0001105 0001078 0000774 0001218 0001078 0000776 0001245 0001079 0000776 0001247 0001080 0000768 0001117 0001080 0000772 0001251 0001080 0000774 0001081 0001080 0000776 0001253 0001082 0000769 0001116 0001086 0000776 0001255 0001091 0000772 0001263 0001091 0000774 0001118 0001091 0000776 0001265 0001091 0000779 0001267 0001095 0000776 0001269 0001099 0000776 0001273 0001101 0000776 0001261 0001110 0000776 0001111 0001140 0000783 0001142 0001141 0000783 0001143 0001240 0000776 0001242 0001241 0000776 0001243 0001256 0000776 0001258 0001257 0000776 0001259 0001575 0001619 0001570 0001575 0001620 0001571 0001575 0001621 0001573 "
       \o "0001608 0001620 0001572 0001610 0001620 0001574 0001729 0001620 0001730 0001746 0001620 0001747 0001749 0001620 0001728 0002344 0002364 0002345 0002352 0002364 0002353 0002355 0002364 0002356 0002503 0002494 0002507 0002503 0002519 0002508 0002887 0002878 0002891 0002887 0002902 0002888 0002887 0002903 0002892 0002962 0003031 0002964 0003014 0003006 0003018 0003014 0003031 0003020 0003015 0003006 0003019 0003142 0003158 0003144 0003263 0003285 0003264 0003270 0003266 0003274 0003270 0003285 0003271 0003270 0003286 0003272 0003274 0003285 0003275 0003398 0003390 0003402 0003398 0003415 0003404 0003399 0003390 0003403 0003545 0003530 0003546 0003545 0003535 0003548 0003545 0003551 0003550 0003548 0003530 0003549 0004133 0004142 0004134 0006917 0006965 0006918 0006919 0006965 0006920 0006921 0006965 0006922 0006923 0006965 0006924 0006925 0006965 0006926 0006929 0006965 0006930 0006970 0006965 0006971 0006972 0006965 0006973 0006974 0006965 0006976 "
       \o "0006975 0006965 0006977 0006978 0006965 0006979 0007734 0000772 0007736 0007735 0000772 0007737 0007770 0000772 0007772 0007771 0000772 0007773 0007778 0000775 0007784 0007779 0000775 0007785 0007840 0000770 0007852 0007840 0000774 0007862 0007841 0000770 0007853 0007841 0000774 0007863 0007864 0000770 0007878 0007865 0000770 0007879 0007884 0000770 0007896 0007885 0000770 0007897 0007936 0000768 0007938 0007936 0000769 0007940 0007936 0000834 0007942 0007936 0000837 0008064 0007937 0000768 0007939 0007937 0000769 0007941 0007937 0000834 0007943 0007937 0000837 0008065 0007938 0000837 0008066 0007939 0000837 0008067 0007940 0000837 0008068 0007941 0000837 0008069 0007942 0000837 0008070 0007943 0000837 0008071 0007944 0000768 0007946 0007944 0000769 0007948 0007944 0000834 0007950 0007944 0000837 0008072 0007945 0000768 0007947 0007945 0000769 0007949 0007945 0000834 0007951 0007945 0000837 0008073 0007946 0000837 0008074 0007947 0000837 0008075 "
       \o "0007948 0000837 0008076 0007949 0000837 0008077 0007950 0000837 0008078 0007951 0000837 0008079 0007952 0000768 0007954 0007952 0000769 0007956 0007953 0000768 0007955 0007953 0000769 0007957 0007960 0000768 0007962 0007960 0000769 0007964 0007961 0000768 0007963 0007961 0000769 0007965 0007968 0000768 0007970 0007968 0000769 0007972 0007968 0000834 0007974 0007968 0000837 0008080 0007969 0000768 0007971 0007969 0000769 0007973 0007969 0000834 0007975 0007969 0000837 0008081 0007970 0000837 0008082 0007971 0000837 0008083 0007972 0000837 0008084 0007973 0000837 0008085 0007974 0000837 0008086 0007975 0000837 0008087 0007976 0000768 0007978 0007976 0000769 0007980 0007976 0000834 0007982 0007976 0000837 0008088 0007977 0000768 0007979 0007977 0000769 0007981 0007977 0000834 0007983 0007977 0000837 0008089 0007978 0000837 0008090 0007979 0000837 0008091 0007980 0000837 0008092 0007981 0000837 0008093 0007982 0000837 0008094 0007983 0000837 0008095 "
       \o "0007984 0000768 0007986 0007984 0000769 0007988 0007984 0000834 0007990 0007985 0000768 0007987 0007985 0000769 0007989 0007985 0000834 0007991 0007992 0000768 0007994 0007992 0000769 0007996 0007992 0000834 0007998 0007993 0000768 0007995 0007993 0000769 0007997 0007993 0000834 0007999 0008000 0000768 0008002 0008000 0000769 0008004 0008001 0000768 0008003 0008001 0000769 0008005 0008008 0000768 0008010 0008008 0000769 0008012 0008009 0000768 0008011 0008009 0000769 0008013 0008016 0000768 0008018 0008016 0000769 0008020 0008016 0000834 0008022 0008017 0000768 0008019 0008017 0000769 0008021 0008017 0000834 0008023 0008025 0000768 0008027 0008025 0000769 0008029 0008025 0000834 0008031 0008032 0000768 0008034 0008032 0000769 0008036 0008032 0000834 0008038 0008032 0000837 0008096 0008033 0000768 0008035 0008033 0000769 0008037 0008033 0000834 0008039 0008033 0000837 0008097 0008034 0000837 0008098 0008035 0000837 0008099 0008036 0000837 0008100 "
       \o "0008037 0000837 0008101 0008038 0000837 0008102 0008039 0000837 0008103 0008040 0000768 0008042 0008040 0000769 0008044 0008040 0000834 0008046 0008040 0000837 0008104 0008041 0000768 0008043 0008041 0000769 0008045 0008041 0000834 0008047 0008041 0000837 0008105 0008042 0000837 0008106 0008043 0000837 0008107 0008044 0000837 0008108 0008045 0000837 0008109 0008046 0000837 0008110 0008047 0000837 0008111 0008048 0000837 0008114 0008052 0000837 0008130 0008060 0000837 0008178 0008118 0000837 0008119 0008127 0000768 0008141 0008127 0000769 0008142 0008127 0000834 0008143 0008134 0000837 0008135 0008182 0000837 0008183 0008190 0000768 0008157 0008190 0000769 0008158 0008190 0000834 0008159 0008592 0000824 0008602 0008594 0000824 0008603 0008596 0000824 0008622 0008656 0000824 0008653 0008658 0000824 0008655 0008660 0000824 0008654 0008707 0000824 0008708 0008712 0000824 0008713 0008715 0000824 0008716 0008739 0000824 0008740 0008741 0000824 0008742 "
       \o "0008764 0000824 0008769 0008771 0000824 0008772 0008773 0000824 0008775 0008776 0000824 0008777 0008781 0000824 0008813 0008801 0000824 0008802 0008804 0000824 0008816 0008805 0000824 0008817 0008818 0000824 0008820 0008819 0000824 0008821 0008822 0000824 0008824 0008823 0000824 0008825 0008826 0000824 0008832 0008827 0000824 0008833 0008828 0000824 0008928 0008829 0000824 0008929 0008834 0000824 0008836 0008835 0000824 0008837 0008838 0000824 0008840 0008839 0000824 0008841 0008849 0000824 0008930 0008850 0000824 0008931 0008866 0000824 0008876 0008872 0000824 0008877 0008873 0000824 0008878 0008875 0000824 0008879 0008882 0000824 0008938 0008883 0000824 0008939 0008884 0000824 0008940 0008885 0000824 0008941 0012358 0012441 0012436 0012363 0012441 0012364 0012365 0012441 0012366 0012367 0012441 0012368 0012369 0012441 0012370 0012371 0012441 0012372 0012373 0012441 0012374 0012375 0012441 0012376 0012377 0012441 0012378 0012379 0012441 0012380 "
       \o "0012381 0012441 0012382 0012383 0012441 0012384 0012385 0012441 0012386 0012388 0012441 0012389 0012390 0012441 0012391 0012392 0012441 0012393 0012399 0012441 0012400 0012399 0012442 0012401 0012402 0012441 0012403 0012402 0012442 0012404 0012405 0012441 0012406 0012405 0012442 0012407 0012408 0012441 0012409 0012408 0012442 0012410 0012411 0012441 0012412 0012411 0012442 0012413 0012445 0012441 0012446 0012454 0012441 0012532 0012459 0012441 0012460 0012461 0012441 0012462 0012463 0012441 0012464 0012465 0012441 0012466 0012467 0012441 0012468 0012469 0012441 0012470 0012471 0012441 0012472 0012473 0012441 0012474 0012475 0012441 0012476 0012477 0012441 0012478 0012479 0012441 0012480 0012481 0012441 0012482 0012484 0012441 0012485 0012486 0012441 0012487 0012488 0012441 0012489 0012495 0012441 0012496 0012495 0012442 0012497 0012498 0012441 0012499 0012498 0012442 0012500 0012501 0012441 0012502 0012501 0012442 0012503 0012504 0012441 0012505 "
       \o "0012504 0012442 0012506 0012507 0012441 0012508 0012507 0012442 0012509 0012527 0012441 0012535 0012528 0012441 0012536 0012529 0012441 0012537 0012530 0012441 0012538 0012541 0012441 0012542 0069785 0069818 0069786 0069787 0069818 0069788 0069797 0069818 0069803 0069937 0069927 0069934 0069938 0069927 0069935 0070471 0070462 0070475 0070471 0070487 0070476 0070841 0070832 0070844 0070841 0070842 0070843 0070841 0070845 0070846 0071096 0071087 0071098 0071097 0071087 0071099 0071989 0071984 0071992",
       3)

(***************************************************************************)
(* Character classes of Python's re module.  A class holds the characters  *)
(* listed in it and those of the tables of ranges in it, or, negated,      *)
(* every other character.                                                  *)
(***************************************************************************)
IsSpace(c) == c \in SpaceChars
IsPrintable(c) == InRanges(PrintableRanges, c)

Chars(set) == [chars |-> set, tables |-> << >>, neg |-> FALSE]
Ranges(tbl) == [chars |-> {}, tables |-> << tbl >>, neg |-> FALSE]
Not(cls) == [cls EXCEPT !.neg = ~@]
Or(a, b) == [chars |-> a.chars \cup b.chars, tables |-> a.tables \o b.tables,
             neg |-> FALSE]

\* c is matched by the class
In(c, cls) ==
  (c \in cls.chars \/ \E k \in 1..Len(cls.tables) : InRanges(cls.tables[k], c))
    # cls.neg

Upper == Ord("A")..Ord("Z")
Digit == Ord("0")..Ord("9")
\* \w  \s  \S
Word == Ranges(WordRanges)
Space == Chars(SpaceChars)
NonSpace == Not(Space)
\* .   (no DOTALL flag anywhere in the code)
Dot == Not(Chars(Of("\n")))
\* [A-Z_]  and  [A-Z0-9_]
UpperUS == Chars(Upper \cup Of("_"))
UpperDigitUS == Chars(Upper \cup Digit \cup Of("_"))
\* ["']
Quote == Of("\"'")

(***************************************************************************)
(* Regular expressions: a pattern is a sequence of nodes, matched by       *)
(* backtracking in Python's priority order (greedy before lazy, left       *)
(* alternative before right).                                              *)
(***************************************************************************)
Set(cls) == << [t |-> "set", cs |-> cls] >>
Lit(str) == [i \in 1..Len(str) |-> [t |-> "set", cs |-> Chars({str[i]})]]
Star(cls) == << [t |-> "star", cs |-> cls, greedy |-> TRUE] >>
Lazy(cls) == << [t |-> "star", cs |-> cls, greedy |-> FALSE] >>
Plus(cls) == Set(cls) \o Star(cls)
Alt(p, q) == << [t |-> "alt", a |-> p, b |-> q] >>
Opt(p) == Alt(p, << >>)
Open(g) == << [t |-> "open", g |-> g] >>
Close(g) == << [t |-> "close", g |-> g] >>
Grp(g, p) == Open(g) \o p \o Close(g)
Bol == << [t |-> "bol"] >>
Eol == << [t |-> "eol"] >>
Look(p) == << [t |-> "look", a |-> p] >>

MaxGroups == 5
NoMatch == [ok |-> FALSE, start |-> 0, end |-> 0, caps |-> << >>]
NoCaps == [g \in 1..MaxGroups |-> <<0, 0>>]

RECURSIVE Match(_, _, _, _)
Match(todo, s, pos, caps) ==
  IF Len(todo) = 0 THEN [ok |-> TRUE, start |-> 0, end |-> pos, caps |-> caps]
  ELSE
    LET n == Head(todo)
        rest == Tail(todo)
        here == pos <= Len(s) /\ In(s[pos], n.cs)
    IN CASE n.t = "set" ->
              IF here THEN Match(rest, s, pos + 1, caps) ELSE NoMatch
         [] n.t = "star" ->
              LET more == IF here THEN Match(todo, s, pos + 1, caps) ELSE NoMatch
                  skip == Match(rest, s, pos, caps)
              IN IF n.greedy
                   THEN (IF more.ok THEN more ELSE skip)
                   ELSE (IF skip.ok THEN skip ELSE more)
         [] n.t = "alt" ->
              LET left == Match(n.a \o rest, s, pos, caps)
              IN IF left.ok THEN left ELSE Match(n.b \o rest, s, pos, caps)
         [] n.t = "open" ->
              Match(rest, s, pos, [caps EXCEPT ![n.g] = <<pos, 0>>])
         [] n.t = "close" ->
              Match(rest, s, pos, [caps EXCEPT ![n.g] = <<caps[n.g][1], pos>>])
         [] n.t = "bol" ->
              IF pos = 1 THEN Match(rest, s, pos, caps) ELSE NoMatch
         [] n.t = "eol" ->
              IF pos = Len(s) + 1 \/ (pos = Len(s) /\ s[pos] = Ord("\n"))
                THEN Match(rest, s, pos, caps) ELSE NoMatch
         [] n.t = "look" ->
              IF Match(n.a, s, pos, caps).ok
                THEN Match(rest, s, pos, caps) ELSE NoMatch

\* pattern.search(s): the match at the leftmost position that has one.
RECURSIVE SearchFrom(_, _, _)
SearchFrom(pat, s, from) ==
  IF from > Len(s) + 1 THEN NoMatch
  ELSE LET m == Match(pat, s, from, NoCaps)
       IN IF m.ok THEN [m EXCEPT !.start = from] ELSE SearchFrom(pat, s, from + 1)

Search(pat, s) == SearchFrom(pat, s, 1)

\* match.group(g): None for a group that took no part in the match.
Group(m, s, g) ==
  IF g = 0 THEN SubSeq(s, m.start, m.end - 1)
  ELSE IF m.caps[g][1] = 0 THEN None
  ELSE SubSeq(s, m.caps[g][1], m.caps[g][2] - 1)

(***************************************************************************)
(* str methods.                                                            *)
(***************************************************************************)
Min(set) == CHOOSE x \in set : \A y \in set : x <= y
Max(set) == CHOOSE x \in set : \A y \in set : x >= y

RECURSIVE Flatten(_, _)
Flatten(seqs, i) == IF i > Len(seqs) THEN << >> ELSE seqs[i] \o Flatten(seqs, i + 1)

\* str.strip(chars): drop the characters of cs from both ends.
StripChars(s, cs) ==
  LET keep == {i \in 1..Len(s) : s[i] \notin cs}
  IN IF keep = {} THEN << >> ELSE SubSeq(s, Min(keep), Max(keep))

\* str.strip()
Strip(s) == StripChars(s, SpaceChars)

\* str.split(): the maximal runs of non-whitespace, in order.
RECURSIVE SplitFrom(_, _)
SplitFrom(s, i) ==
  LET begins == {j \in i..Len(s) : ~IsSpace(s[j])}
  IN IF begins = {} THEN << >>
     ELSE LET b == Min(begins)
              ends == {j \in b..Len(s) : IsSpace(s[j])}
              e == IF ends = {} THEN Len(s) + 1 ELSE Min(ends)
          IN << SubSeq(s, b, e - 1) >> \o SplitFrom(s, e)

Split(s) == SplitFrom(s, 1)

\* A text cut at the characters of ends, "\r\n" counting as one; no empty
\* last line after a final line end.
RECURSIVE SplitAt(_, _, _)
SplitAt(s, i, ends) ==
  IF i > Len(s) THEN << >>
  ELSE LET nls == {j \in i..Len(s) : s[j] \in ends}
       IN IF nls = {} THEN << SubSeq(s, i, Len(s)) >>
          ELSE LET e == Min(nls)
                   next == IF s[e] = Ord("\r") /\ e < Len(s) /\ s[e + 1] = Ord("\n")
                             THEN e + 2 ELSE e + 1
               IN << SubSeq(s, i, e - 1) >> \o SplitAt(s, next, ends)

\* str.splitlines()
SplitLines(s) == SplitAt(s, 1, LineEnds)

\* str.lower() of one character that is no capital sigma: U+0130 becomes
\* 'i' and U+0307, any other character one character.
LowerOf(c) ==
  LET run == RunOf(LowerRuns, c)
  IN IF c = 304 THEN << 105, 775 >>
     ELSE IF run # << >> /\ (c - run[1]) % run[3] = 0 THEN << c - run[1] + run[4] >>
     ELSE << c >>

IsCased(c) == InRanges(CasedRanges, c)
IsCaseIgnorable(c) == InRanges(CaseIgnorableRanges, c)

\* The nearest position from j down, and from j up, whose character is not
\* case-ignorable: 0 and Len(s) + 1 if there is none
RECURSIVE CasedBefore(_, _)
CasedBefore(s, j) ==
  IF j = 0 \/ ~IsCaseIgnorable(s[j]) THEN j ELSE CasedBefore(s, j - 1)

RECURSIVE CasedAfter(_, _)
CasedAfter(s, j) ==
  IF j > Len(s) \/ ~IsCaseIgnorable(s[j]) THEN j ELSE CasedAfter(s, j + 1)

\* A capital sigma at i ends a word: a cased letter comes before it and
\* none after it, case-ignorable characters apart.
FinalSigma(s, i) ==
  LET b == CasedBefore(s, i - 1)
      a == CasedAfter(s, i + 1)
  IN b > 0 /\ IsCased(s[b]) /\ (a > Len(s) \/ ~IsCased(s[a]))

\* str.lower()
ToLower(s) ==
  Flatten([i \in 1..Len(s) |->
             IF s[i] = 931 THEN (IF FinalSigma(s, i) THEN << 962 >> ELSE << 963 >>)
             ELSE LowerOf(s[i])], 1)

\* sub in s
Contains(s, sub) ==
  \E i \in 1..Len(s) - Len(sub) + 1 : SubSeq(s, i, i + Len(sub) - 1) = sub

\* s.split(c)
RECURSIVE SplitOnFrom(_, _, _)
SplitOnFrom(s, c, i) ==
  LET at == {j \in i..Len(s) : s[j] = c}
  IN IF at = {} THEN << SubSeq(s, i, Len(s)) >>
     ELSE << SubSeq(s, i, Min(at) - 1) >> \o SplitOnFrom(s, c, Min(at) + 1)

SplitOn(s, c) == SplitOnFrom(s, c, 1)

\* str(n), for n >= 0
RECURSIVE IntStr(_)
IntStr(n) ==
  IF n < 10 THEN << Ord("0") + n >>
  ELSE IntStr(n \div 10) \o << Ord("0") + (n % 10) >>

\* format(n, "0<width>x")
RECURSIVE Hex(_, _)
Hex(n, width) ==
  IF width = 0 THEN << >>
  ELSE Hex(n \div 16, width - 1) \o << S("0123456789abcdef")[(n % 16) + 1] >>

(***************************************************************************)
(* unicodedata.normalize("NFKC", s), which ast.parse applies to an         *)
(* identifier that holds a character beyond ASCII.                         *)
(***************************************************************************)
CombiningClass(c) ==
  LET run == RunOf(CombiningRuns, c) IN IF run = << >> THEN 0 ELSE run[3]

\* The decomposition of one character; a Hangul syllable (U+AC00 to U+D7A3)
\* decomposes into its two or three jamo.
Decompose(c) ==
  IF c >= 44032 /\ c <= 55203 THEN
    LET x == c - 44032
    IN << 4352 + (x \div 588), 4449 + ((x % 588) \div 28) >>
         \o (IF x % 28 = 0 THEN << >> ELSE << 4519 + (x % 28) >>)
  ELSE LET run == RunOf(DecompRuns, c)
       IN IF run = << >> THEN << c >>
          ELSE [j \in 1..run[4] |->
                  DecompChars[run[3] + j - 1][1] + (IF j = run[4] THEN c - run[1] ELSE 0)]

\* Canonical ordering: a character of class other than 0 moves before the
\* characters of higher class that precede it.
RECURSIVE Sink(_, _)
Sink(s, j) ==
  IF j > 1 /\ CombiningClass(s[j]) # 0
       /\ CombiningClass(s[j - 1]) > CombiningClass(s[j])
    THEN Sink([s EXCEPT ![j - 1] = s[j], ![j] = s[j - 1]], j - 1)
    ELSE s

RECURSIVE Reorder(_, _)
Reorder(s, i) == IF i > Len(s) THEN s ELSE Reorder(Sink(s, i), i + 1)

\* The composite of the pair of a and b among the pairs lo to hi of tbl, -1
\* if there is none
RECURSIVE FindPair(_, _, _, _, _)
FindPair(tbl, a, b, lo, hi) ==
  IF lo > hi THEN -1
  ELSE LET mid == (lo + hi) \div 2
           p == tbl[mid]
       IN IF a < p[1] \/ (a = p[1] /\ b < p[2]) THEN FindPair(tbl, a, b, lo, mid - 1)
          ELSE IF a > p[1] \/ b > p[2] THEN FindPair(tbl, a, b, mid + 1, hi)
          ELSE p[3]

\* The composite of a and b, -1 if there is none: a leading and a vowel
\* jamo, a Hangul syllable without trailing jamo and a trailing jamo, or a
\* pair of the table.
ComposePair(a, b) ==
  IF a >= 4352 /\ a < 4371 /\ b >= 4449 /\ b < 4470
    THEN 44032 + ((a - 4352) * 21 + (b - 4449)) * 28
  ELSE IF a >= 44032 /\ a <= 55203 /\ (a - 44032) % 28 = 0 /\ b > 4519 /\ b < 4547
    THEN a + (b - 4519)
  ELSE FindPair(ComposePairs, a, b, 1, Len(ComposePairs))

\* Canonical composition of s from i on: out is what is composed so far,
\* start the position in it of the last starter (0 if none) and last the
\* class of the last character of out.
RECURSIVE Compose(_, _, _, _, _)
Compose(s, i, out, start, last) ==
  IF i > Len(s) THEN out
  ELSE LET c == s[i]
           k == CombiningClass(c)
           p == IF start = 0 THEN -1 ELSE ComposePair(out[start], c)
       IN IF p >= 0 /\ (last < k \/ (last = 0 /\ Len(out) = start))
            THEN Compose(s, i + 1, [out EXCEPT ![start] = p], start, last)
            ELSE Compose(s, i + 1, Append(out, c),
                         IF k = 0 THEN Len(out) + 1 ELSE start, k)

NFKC(s) ==
  Compose(Reorder(Flatten([i \in 1..Len(s) |-> Decompose(s[i])], 1), 1),
          1, << >>, 0, -1)

(***************************************************************************)
(* String literals of the code that meet strings taken from the input.     *)
(***************************************************************************)
s_function == S("function")
s_export == S("export")
s_image == S("image")
s_size == S("size")
s_include == S("include")
s_setenv == S("setenv")
s_load == S("load")
s_fat == S("fat")
s_boot == S("boot")
s_config == S("config")
s_bool == S("bool")
s_depends == S("depends")
s_on == S("on")
s_help == S("help")
s_eval == S("eval")
s_VERSION == S("_VERSION")
s_DEPENDENCIES == S("_DEPENDENCIES")
s_global == S("global")
s_syntax_error == S("syntax_error")

(***************************************************************************)
(* HAStructure, HAParseResult and the values held in their dictionaries.   *)
(* A dictionary is a sequence of key/value entries in insertion order.     *)
(***************************************************************************)
VStr(s) == [k |-> "str", v |-> s]
VLit(s) == [k |-> "lit", v |-> s]
VInt(n) == [k |-> "int", v |-> n]
VList(l) == [k |-> "list", v |-> l]
VDict(d) == [k |-> "dict", v |-> d]
VNone == [k |-> "none", v |-> 0]
KV(key, val) == [key |-> key, val |-> val]

HAStructure(type, name, details) ==
  [type |-> type, name |-> name, details |-> details]

HAParseResult(file_type, structures, dependencies) ==
  [raised |-> FALSE, file_type |-> file_type, structures |-> structures,
   dependencies |-> dependencies, relationships |-> << >>]

\* d[key] for a key the dictionary holds
Get(d, key) == d[CHOOSE i \in 1..Len(d) : d[i].key = key].val
Has(d, key) == \E i \in 1..Len(d) : d[i].key = key

\* An exception leaving a function, with str(e) and the local variables of
\* the function at the raise; a returned HAParseResult carries
\* raised = FALSE.
Raised(msg, locals) == [raised |-> TRUE, error |-> msg, locals |-> locals]
IsRaised(r) == r.raised

\* x or default, for x a str or None
OrElse(x, default) == IF x = None \/ x = << >> THEN default ELSE x

\* content.splitlines() on a content that is not a str
ErrNoSplitlines == S("'NoneType' object has no attribute 'splitlines'")
\* match.group(1) where match is bound to a str
ErrStrNoGroup == S("'str' object has no attribute 'group'")

(***************************************************************************)
(* The local variables of the extractors.  A frame is what the extractor   *)
(* that ran last on an instance left in them; NoFrame is a new instance,   *)
(* on which none has run.                                                  *)
(***************************************************************************)
NoFrame ==
  [raised |-> FALSE, structures |-> << >>, dependencies |-> << >>,
   current_function |-> None, current_image |-> None]

\* A variant of Locals in which the variables keep what the last call left.
Locals_kept(frame) == frame

\* structures = [], dependencies = [], current_function = None,
\* current_image = None: every extractor assigns its locals on entry,
\* whatever ran before.
Locals(frame) ==
  [raised |-> FALSE, structures |-> << >>, dependencies |-> << >>,
   current_function |-> None, current_image |-> None]

(***************************************************************************)
(* self.patterns["shell"]: the four patterns _parse_shell uses.            *)
(***************************************************************************)
shell_function_def ==
  Bol \o Opt(Lit(s_function) \o Plus(Space)) \o Grp(1, Plus(Word))
      \o Star(Space) \o Lit(S("()")) \o Star(Space) \o Lit(S("{"))
shell_variable_assign ==
  Bol \o Grp(1, Set(UpperUS) \o Star(UpperDigitUS)) \o Star(Space)
      \o Lit(S("=")) \o Star(Space) \o Grp(2, Lazy(Dot)) \o Eol
shell_export ==
  Bol \o Lit(s_export) \o Plus(Space) \o Grp(1, Set(UpperUS) \o Star(UpperDigitUS))
shell_source ==
  Bol \o Lit(S(".")) \o Plus(Space) \o Grp(1, Lazy(Dot)) \o Eol

\* A variant of Scope in which the enclosing function is not looked at.
Scope_global(current_function) == s_global

\* current_function or "global"
Scope(current_function) == OrElse(current_function, s_global)

\* One iteration of the loop of _parse_shell; st holds the three locals.
ShellLine(st, line_num, raw) ==
  LET line == Strip(raw)
      f == Search(shell_function_def, line)
      v == Search(shell_variable_assign, line)
      e == Search(shell_export, line)
      s == Search(shell_source, line)
  IN IF f.ok THEN
       [st EXCEPT !.current_function = Group(f, line, 1),
                  !.structures = Append(@, HAStructure("function", Group(f, line, 1),
                       << KV("line", VInt(line_num)), KV("commands", VList(<< >>)) >>))]
     ELSE IF v.ok THEN
       [st EXCEPT !.structures = Append(@, HAStructure("variable", Group(v, line, 1),
                       << KV("value", VStr(Group(v, line, 2))),
                          KV("line", VInt(line_num)),
                          KV("scope", VStr(Scope(st.current_function))) >>))]
     ELSE IF e.ok THEN
       [st EXCEPT !.structures = Append(@, HAStructure("export", Group(e, line, 1),
                       << KV("line", VInt(line_num)),
                          KV("scope", VStr(Scope(st.current_function))) >>))]
     ELSE IF s.ok THEN
       [st EXCEPT !.dependencies = Append(@,
                       << KV("type", VLit("source")),
                          KV("path", VStr(Group(s, line, 1))),
                          KV("line", VInt(line_num)) >>)]
     ELSE st

RECURSIVE ShellLoop(_, _, _)
ShellLoop(lines, i, st) ==
  IF i > Len(lines) THEN st ELSE ShellLoop(lines, i + 1, ShellLine(st, i, lines[i]))

_parse_shell(frame, content) ==
  IF content = None THEN Raised(ErrNoSplitlines, Locals(frame))
  ELSE LET st == ShellLoop(SplitLines(content), 1, Locals(frame))
       IN HAParseResult("shell", st.structures, st.dependencies)

(***************************************************************************)
(* self.patterns["makefile"]: the three patterns _parse_makefile uses.     *)
(***************************************************************************)
makefile_package_def ==
  Bol \o Grp(1, Plus(Word)) \o Lit(s_VERSION) \o Star(Space) \o Lit(S("="))
      \o Star(Space) \o Grp(2, Star(Dot)) \o Eol
makefile_package_deps ==
  Bol \o Grp(1, Plus(Word)) \o Lit(s_DEPENDENCIES) \o Star(Space) \o Lit(S("="))
      \o Star(Space) \o Grp(2, Star(Dot)) \o Eol
makefile_eval ==
  Lit(S("$(")) \o Lit(s_eval) \o Plus(Space) \o Lit(S("$("))
      \o Grp(1, Lazy(Dot)) \o Lit(S("))"))

\* A variant of DepEdges in which the list is not split: only its first
\* token gets an edge.
DepEdges_first(from, deps) ==
  [j \in 1..(IF Len(deps) > 0 THEN 1 ELSE 0) |->
     << KV("from", VStr(from)), KV("to", VStr(Strip(deps[j]))),
        KV("type", VLit("package_dependency")) >>]

\* The edges of one dependency line: one per token of match.group(2).split().
DepEdges(from, deps) ==
  [j \in 1..Len(deps) |->
     << KV("from", VStr(from)), KV("to", VStr(Strip(deps[j]))),
        KV("type", VLit("package_dependency")) >>]

MakefileLine(st, line_num, raw) ==
  LET line == Strip(raw)
      v == Search(makefile_package_def, line)
      d == Search(makefile_package_deps, line)
      e == Search(makefile_eval, line)
  IN IF v.ok THEN
       [st EXCEPT !.structures = Append(@, HAStructure("package_version",
                       Group(v, line, 1),
                       << KV("version", VStr(Group(v, line, 2))),
                          KV("line", VInt(line_num)) >>))]
     ELSE IF d.ok THEN
       [st EXCEPT !.dependencies =
                       @ \o DepEdges(Group(d, line, 1), Split(Group(d, line, 2)))]
     ELSE IF e.ok THEN
       [st EXCEPT !.structures = Append(@, HAStructure("eval", Group(e, line, 1),
                       << KV("line", VInt(line_num)),
                          KV("full_eval", VStr(Group(e, line, 0))) >>))]
     ELSE st

RECURSIVE MakefileLoop(_, _, _)
MakefileLoop(lines, i, st) ==
  IF i > Len(lines) THEN st
  ELSE MakefileLoop(lines, i + 1, MakefileLine(st, i, lines[i]))

_parse_makefile(frame, content) ==
  IF content = None THEN Raised(ErrNoSplitlines, Locals(frame))
  ELSE LET st == MakefileLoop(SplitLines(content), 1, Locals(frame))
       IN HAParseResult("makefile", st.structures, st.dependencies)

(***************************************************************************)
(* _parse_genimage and its three local patterns.                           *)
(***************************************************************************)
QuotedOrWord == Alt(Set(Chars(Quote)) \o Lazy(Dot) \o Set(Chars(Quote)), Plus(NonSpace))
genimage_image_def ==
  Bol \o Lit(s_image) \o Plus(Space) \o Grp(1, QuotedOrWord) \o Star(Space)
      \o Lit(S("{"))
genimage_size ==
  Bol \o Star(Space) \o Lit(s_size) \o Star(Space) \o Lit(S("=")) \o Star(Space)
      \o Grp(1, QuotedOrWord)
genimage_include ==
  Bol \o Star(Space) \o Lit(s_include) \o Lit(S("(")) \o Set(Chars(Quote))
      \o Grp(1, Lazy(Dot)) \o Set(Chars(Quote)) \o Lit(S(")"))

\* The body of the size branch: `match` is what line 412 bound, which is
\* current_image (a str) because := binds the whole `and` expression; the
\* first structure named current_image evaluates match.group(1) on it.
SizeBranch(st, match) ==
  IF \E i \in 1..Len(st.structures) : st.structures[i].name = st.current_image
    THEN Raised(ErrStrNoGroup, st)
    ELSE st

GenimageLine(st, line_num, line) ==
  LET im == Search(genimage_image_def, line)
      sz == Search(genimage_size, line)
      \* match := (re.search(size, line) and current_image)
      match == IF sz.ok THEN st.current_image ELSE None
      inc == Search(genimage_include, line)
  IN IF im.ok THEN
       LET current_image == StripChars(Group(im, line, 1), Quote)
       IN [st EXCEPT !.current_image = current_image,
                     !.structures = Append(@, HAStructure("image", current_image,
                          << KV("line", VInt(line_num)),
                             KV("properties", VDict(<< >>)) >>))]
     ELSE IF match # None /\ match # << >> THEN SizeBranch(st, match)
     ELSE IF inc.ok THEN
       [st EXCEPT !.structures = Append(@, HAStructure("include",
                       Group(inc, line, 1), << KV("line", VInt(line_num)) >>))]
     ELSE st

RECURSIVE GenimageLoop(_, _, _)
GenimageLoop(lines, i, st) ==
  IF i > Len(lines) \/ IsRaised(st) THEN st
  ELSE GenimageLoop(lines, i + 1, GenimageLine(st, i, lines[i]))

_parse_genimage(frame, content) ==
  IF content = None THEN Raised(ErrNoSplitlines, Locals(frame))
  ELSE LET st == GenimageLoop(SplitLines(content), 1, Locals(frame))
       IN IF IsRaised(st) THEN st
          ELSE HAParseResult("genimage", st.structures, st.dependencies)

(***************************************************************************)
(* ast.parse, for the statement forms below (one statement per logical     *)
(* line, with comments, line continuations, parenthesised lists that span  *)
(* several lines and one level of indented body); any other text of the    *)
(* input pools is text CPython rejects with a SyntaxError.                 *)
(*     SIMPLE:  import NAME    from NAME import NAME    pass    EXPR       *)
(*     def NAME(NAME, ...): SIMPLE        def NAME(NAME, ...):             *)
(*     class NAME(EXPR, ...): SIMPLE      class NAME(EXPR, ...):           *)
(*     @EXPR                                                               *)
(* NAME is an identifier that is no keyword; EXPR is a NAME or one of the  *)
(* keywords None, True, False.                                             *)
(***************************************************************************)
s_import == S("import")
s_from == S("from")
s_def == S("def")
s_class == S("class")
s_pass == S("pass")
\* keyword.kwlist
PyKeywords ==
  LET kwlist == Split(S("False None True and as assert async await break class "
                        \o "continue def del elif else except finally for from "
                        \o "global if import in is lambda nonlocal not or pass "
                        \o "raise return try while with yield"))
  IN {kwlist[k] : k \in 1..Len(kwlist)}
\* The keywords that are expressions, of type ast.Constant
PyConstants == {S("None"), S("True"), S("False")}

\* A backslash and the line end after it, which join two physical lines,
\* and a line end inside parentheses, which joins two as well: neither is a
\* character of the text.
Cont == -1
Joined == -2
\* What separates the tokens of a line
Blank == Of(" \t\f") \cup {Cont, Joined}
\* The characters an identifier starts with and goes on with
IdentStart == Ranges(XidStartRanges)
IdentPart == Ranges(XidContinueRanges)
Ident == Set(IdentStart) \o Star(IdentPart)
NameList == Star(Or(IdentPart, Chars(Of(",") \cup Blank)))

\* The form under which ast.parse records an identifier: NFKC, if it holds
\* a character beyond ASCII
PyNorm(name) ==
  IF \A j \in 1..Len(name) : name[j] < 128 THEN name ELSE NFKC(name)
py_import ==
  Bol \o Lit(s_import) \o Plus(Chars(Blank)) \o Grp(1, Ident) \o Star(Chars(Blank)) \o Eol
py_from ==
  Bol \o Lit(s_from) \o Plus(Chars(Blank)) \o Grp(1, Ident) \o Plus(Chars(Blank))
      \o Lit(s_import) \o Plus(Chars(Blank)) \o Grp(2, Ident) \o Star(Chars(Blank)) \o Eol
py_def_head ==
  Bol \o Lit(s_def) \o Plus(Chars(Blank)) \o Grp(1, Ident) \o Star(Chars(Blank))
      \o Lit(S("(")) \o Grp(2, NameList) \o Lit(S(")")) \o Star(Chars(Blank))
      \o Lit(S(":")) \o Star(Chars(Blank))
py_class_head ==
  Bol \o Lit(s_class) \o Plus(Chars(Blank)) \o Grp(1, Ident) \o Star(Chars(Blank))
      \o Opt(Lit(S("(")) \o Grp(2, NameList) \o Lit(S(")"))) \o Star(Chars(Blank))
      \o Lit(S(":")) \o Star(Chars(Blank))
py_decorator ==
  Bol \o Lit(S("@")) \o Star(Chars(Blank)) \o Grp(1, Ident) \o Star(Chars(Blank)) \o Eol
py_pass == Bol \o Lit(s_pass) \o Star(Chars(Blank)) \o Eol
py_name == Bol \o Ident \o Eol
py_expr == Bol \o Grp(1, Ident) \o Star(Chars(Blank)) \o Eol

IsName(s) == Search(py_name, s).ok /\ s \notin PyKeywords

\* An expression of the forms above: a name or a constant
IsExpr(s) == IsName(s) \/ s \in PyConstants

\* A parenthesised list: [ok, names]; one trailing comma is allowed. With
\* exprs the items are expressions and names holds those that are
\* ast.Name, else the items are names.
ParseNames(text, exprs) ==
  IF text = None \/ StripChars(text, Blank) = << >> THEN [ok |-> TRUE, names |-> << >>]
  ELSE LET raw == SplitOn(text, Ord(","))
           all == [j \in 1..Len(raw) |-> StripChars(raw[j], Blank)]
           pieces == IF all[Len(all)] = << >> THEN SubSeq(all, 1, Len(all) - 1)
                     ELSE all
           names == SelectSeq(pieces, LAMBDA x : x \notin PyConstants)
       IN [ok |-> Len(pieces) > 0 /\ \A j \in 1..Len(pieces) :
                    IF exprs THEN IsExpr(pieces[j]) ELSE IsName(pieces[j]),
           names |-> [j \in 1..Len(names) |-> PyNorm(names[j])]]

\* The column and the alternate column (tabs of width 1) the leading
\* blanks of a line reach, and how many blanks there are: a tab goes to
\* the next multiple of 8, a form feed goes back to 0, and after a
\* continuation the column stays what it was before it, if not 0.
RECURSIVE IndentFrom(_, _, _, _, _)
IndentFrom(line, i, col, alt, cont) ==
  IF i > Len(line) \/ line[i] \notin Blank
    THEN [col |-> IF cont # 0 THEN cont ELSE col,
          alt |-> IF cont # 0 THEN cont ELSE alt, n |-> i - 1]
  ELSE CASE line[i] = Ord(" ") -> IndentFrom(line, i + 1, col + 1, alt + 1, cont)
         [] line[i] = Ord("\t") ->
              IndentFrom(line, i + 1, ((col \div 8) + 1) * 8, alt + 1, cont)
         [] line[i] = Ord("\f") -> IndentFrom(line, i + 1, 0, 0, cont)
         [] line[i] = Cont ->
              IndentFrom(line, i + 1, col, alt, IF cont # 0 THEN cont ELSE col)

Indent(line) ==
  [col |-> IndentFrom(line, 1, 0, 0, 0).col, alt |-> IndentFrom(line, 1, 0, 0, 0).alt]

PyNode(kind, name, names, decorators) ==
  [kind |-> kind, name |-> name, names |-> names, decorators |-> decorators,
   body |-> << >>]

\* A simple statement: a node, or a syntax error.
PySimple(text) ==
  LET i == Search(py_import, text)
      f == Search(py_from, text)
      p == Search(py_pass, text)
      e == Search(py_expr, text)
  IN IF i.ok /\ IsName(Group(i, text, 1)) THEN
       [ok |-> TRUE, what |-> "node",
        node |-> PyNode("Import", << >>, << PyNorm(Group(i, text, 1)) >>, << >>)]
     ELSE IF f.ok /\ IsName(Group(f, text, 1)) /\ IsName(Group(f, text, 2)) THEN
       [ok |-> TRUE, what |-> "node",
        node |-> PyNode("ImportFrom", PyNorm(Group(f, text, 1)),
                        << PyNorm(Group(f, text, 2)) >>, << >>)]
     ELSE IF p.ok THEN
       [ok |-> TRUE, what |-> "node", node |-> PyNode("Pass", << >>, << >>, << >>)]
     ELSE IF e.ok /\ IsExpr(Group(e, text, 1)) THEN
       [ok |-> TRUE, what |-> "node", node |-> PyNode("Expr", << >>, << >>, << >>)]
     ELSE [ok |-> FALSE]

\* A def or a class, given its head and what follows the colon: with
\* nothing after the colon the body is the indented lines that follow.
PyCompound(node, rest) ==
  IF StripChars(rest, Blank) = << >> THEN [ok |-> TRUE, what |-> "open", node |-> node]
  ELSE IF PySimple(rest).ok THEN
    [ok |-> TRUE, what |-> "node",
     node |-> [node EXCEPT !.body = << PySimple(rest).node >>]]
  ELSE [ok |-> FALSE]

\* The statement of one line: a node, a decorator, or a syntax error.
PyStatement(text, decorators) ==
  LET d == Search(py_def_head, text)
      c == Search(py_class_head, text)
      a == Search(py_decorator, text)
  IN IF a.ok /\ IsExpr(Group(a, text, 1)) THEN
       [ok |-> TRUE, what |-> "decorator",
        name |-> IF Group(a, text, 1) \in PyConstants THEN None
                 ELSE PyNorm(Group(a, text, 1))]
     ELSE IF d.ok /\ IsName(Group(d, text, 1)) /\ ParseNames(Group(d, text, 2), FALSE).ok THEN
       PyCompound(PyNode("FunctionDef", PyNorm(Group(d, text, 1)),
                         ParseNames(Group(d, text, 2), FALSE).names, decorators),
                  SubSeq(text, d.end, Len(text)))
     ELSE IF c.ok /\ IsName(Group(c, text, 1)) /\ ParseNames(Group(c, text, 2), TRUE).ok THEN
       PyCompound(PyNode("ClassDef", PyNorm(Group(c, text, 1)),
                         ParseNames(Group(c, text, 2), TRUE).names, decorators),
                  SubSeq(text, c.end, Len(text)))
     ELSE IF Len(decorators) > 0 THEN [ok |-> FALSE]
     ELSE PySimple(text)

PyError(st) == [st EXCEPT !.ok = FALSE]

\* One line of the source, given its indentation and its statement.
PyStep(st, line, ind, stmt) ==
     IF StripChars(line, Blank) = << >> THEN st
     ELSE IF ind.col > 0 THEN
       \* a statement of the open class body, at the indentation of its first
       IF st.mode = "top" \/ ~stmt.ok THEN PyError(st)
       ELSE IF st.mode = "in_body" /\ ind # st.indent THEN PyError(st)
       ELSE IF stmt.what = "decorator" THEN
         [st EXCEPT !.mode = "in_body", !.indent = ind,
                    !.decorators = Append(@, stmt.name)]
       ELSE IF stmt.what = "node" THEN
         [st EXCEPT !.mode = "in_body", !.indent = ind, !.decorators = << >>,
                    !.nodes[Len(st.nodes)].body = Append(@, stmt.node)]
       ELSE PyError(st)
     ELSE
       IF st.mode = "need_body" \/ ~stmt.ok THEN PyError(st)
       ELSE IF st.mode = "in_body" /\ Len(st.decorators) > 0 THEN PyError(st)
       ELSE IF stmt.what = "decorator" THEN
         [st EXCEPT !.mode = "top", !.decorators = Append(@, stmt.name)]
       ELSE [st EXCEPT !.mode = IF stmt.what = "open" THEN "need_body" ELSE "top",
                       !.decorators = << >>,
                       !.nodes = Append(@, stmt.node)]

Dedent(line) == SubSeq(line, IndentFrom(line, 1, 0, 0, 0).n + 1, Len(line))

PyLine(st, line) ==
  PyStep(st, line, Indent(line), PyStatement(Dedent(line), st.decorators))

RECURSIVE PyLoop(_, _, _)
PyLoop(lines, i, st) ==
  IF ~st.ok THEN st
  ELSE IF i > Len(lines) THEN
    (IF st.mode = "need_body" \/ Len(st.decorators) > 0 THEN PyError(st) ELSE st)
  ELSE PyLoop(lines, i + 1, PyLine(st, lines[i]))

\* A physical line without its comment
Uncomment(line) ==
  IF Ord("#") \in {line[j] : j \in 1..Len(line)}
    THEN SubSeq(line, 1, Min({j \in 1..Len(line) : line[j] = Ord("#")}) - 1)
    ELSE line

\* How many parentheses a text has opened and not closed
Depth(text) ==
  Cardinality({j \in 1..Len(text) : text[j] = Ord("(")})
    - Cardinality({j \in 1..Len(text) : text[j] = Ord(")")})

\* The logical lines of the physical lines from i on, text being what the
\* lines before i have begun: a line that ends with a backslash outside a
\* comment goes on with the next one, and so does a line that leaves a
\* parenthesis open; the last line has no next one, and keeps its
\* backslash.
RECURSIVE PyLogical(_, _, _)
PyLogical(lines, i, text) ==
  IF i > Len(lines) THEN << >>
  ELSE LET line == lines[i]
           continued == /\ i < Len(lines)
                        /\ Len(line) > 0
                        /\ line[Len(line)] = Ord("\\")
                        /\ Uncomment(line) = line
           logical == text \o (IF continued
                                 THEN SubSeq(line, 1, Len(line) - 1) \o << Cont >>
                                 ELSE Uncomment(line))
       IN IF continued THEN PyLogical(lines, i + 1, logical)
          ELSE IF i < Len(lines) /\ Depth(logical) > 0
            THEN PyLogical(lines, i + 1, logical \o << Joined >>)
          ELSE << logical >> \o PyLogical(lines, i + 1, << >>)

\* The physical lines of a source text, which end at "\n", "\r\n" and "\r";
\* the tokenizer reads a text that ends with "\r\n" as if one more line end
\* followed.
PyLines(content) ==
  SplitAt(content, 1, Of("\n\r"))
    \o (IF Len(content) >= 2 /\ content[Len(content) - 1] = Ord("\r")
           /\ content[Len(content)] = Ord("\n") THEN << << >> >> ELSE << >>)

\* A lone surrogate (U+D800 to U+DFFF), which UTF-8 cannot encode
IsSurrogate(c) == c >= 55296 /\ c <= 57343

\* str(e) of the UnicodeEncodeError that encoding the source raises: it
\* names the first run of surrogates, by its positions counted from 0.
ErrSurrogates(content) ==
  LET first == Min({j \in 1..Len(content) : IsSurrogate(content[j])})
      last == Min({j \in first..Len(content) :
                     j = Len(content) \/ ~IsSurrogate(content[j + 1])})
  IN S("'utf-8' codec can't encode character")
       \o (IF first = last
             THEN S(" '\\u") \o Hex(content[first], 4) \o S("' in position ")
                    \o IntStr(first - 1)
             ELSE S("s in position ") \o IntStr(first - 1) \o S("-")
                    \o IntStr(last - 1))
       \o S(": surrogates not allowed")

\* What ast.parse raises: a SyntaxError, or the error of encoding the text
SyntaxError == [ok |-> FALSE, error |-> << >>]
EncodeError(msg) == [ok |-> FALSE, error |-> msg]
IsSyntaxError(tree) == ~tree.ok /\ tree.error = << >>

\* The tree, if the lines are statements
Module(st) == IF st.ok THEN [ok |-> TRUE, body |-> st.nodes] ELSE SyntaxError

\* ast.parse(content): the text is encoded first, then refused if it holds
\* a null character, then read line by line.
ast_parse(content) ==
  IF \E j \in 1..Len(content) : IsSurrogate(content[j])
    THEN EncodeError(ErrSurrogates(content))
  ELSE IF \E j \in 1..Len(content) : content[j] = 0 THEN SyntaxError
  ELSE Module(PyLoop(PyLogical(PyLines(content), 1, << >>), 1,
                [ok |-> TRUE, mode |-> "top", indent |-> [col |-> 0, alt |-> 0],
                 decorators |-> << >>,
                 nodes |-> << >>]))

\* ast.walk(tree), breadth first: the statements of the module, then the
\* statements of their bodies, and so on (the other nodes are none the
\* loop reads).
RECURSIVE Bodies(_, _)
Bodies(nodes, i) ==
  IF i > Len(nodes) THEN << >> ELSE nodes[i].body \o Bodies(nodes, i + 1)

RECURSIVE WalkFrom(_)
WalkFrom(nodes) ==
  IF nodes = << >> THEN << >> ELSE nodes \o WalkFrom(Bodies(nodes, 1))

ast_walk(tree) == WalkFrom(tree.body)

SelectSeqKind(nodes, kind) == SelectSeq(nodes, LAMBDA n : n.kind = kind)

\* One iteration of `for node in ast.walk(tree)`.
PythonNode(st, node) ==
  IF node.kind = "FunctionDef" THEN
    [st EXCEPT !.structures = Append(@, HAStructure("function", node.name,
                  << KV("args", VList(node.names)),
                     KV("decorators",
                        VList(SelectSeq(node.decorators, LAMBDA d : d # None))) >>))]
  ELSE IF node.kind = "ClassDef" THEN
    [st EXCEPT !.structures = Append(@, HAStructure("class", node.name,
                  << KV("bases", VList(node.names)),
                     KV("methods", VList([j \in 1..Len(SelectSeqKind(node.body, "FunctionDef"))
                          |-> SelectSeqKind(node.body, "FunctionDef")[j].name])) >>))]
  ELSE IF node.kind = "Import" THEN
    [st EXCEPT !.dependencies = @ \o [j \in 1..Len(node.names) |->
                  << KV("type", VLit("import")), KV("name", VStr(node.names[j])) >>]]
  ELSE IF node.kind = "ImportFrom" THEN
    [st EXCEPT !.dependencies = Append(@,
                  << KV("type", VLit("import_from")), KV("module", VStr(node.name)),
                     KV("names", VList(node.names)) >>)]
  ELSE st

RECURSIVE PythonLoop(_, _, _)
PythonLoop(nodes, i, st) ==
  IF i > Len(nodes) THEN st ELSE PythonLoop(nodes, i + 1, PythonNode(st, nodes[i]))

ErrCompileArg == S("compile() arg 1 must be a string, bytes or AST object")

\* A variant of SyntaxErrorResult in which no error structure is recorded.
SyntaxErrorResult_empty(structures, dependencies) ==
  HAParseResult("python", structures, dependencies)

\* The except SyntaxError clause: the error structure joins what the try
\* block had collected when ast.parse raised, which is nothing.
SyntaxErrorResult(structures, dependencies) ==
  HAParseResult("python",
    Append(structures, HAStructure("error", s_syntax_error,
                          << KV("message", VLit("Invalid Python syntax")) >>)),
    dependencies)

PythonResult(st) == HAParseResult("python", st.structures, st.dependencies)

\* A variant of PythonTry without the except SyntaxError clause: the error
\* leaves _parse_python.
PythonTry_raise(frame, tree) ==
  IF tree.ok
    THEN PythonResult(PythonLoop(ast_walk(tree), 1, Locals(frame)))
    ELSE Raised(IF IsSyntaxError(tree) THEN S("invalid syntax") ELSE tree.error,
                Locals(frame))

\* The try block of _parse_python, given what ast.parse did: a SyntaxError
\* is caught, any other error leaves _parse_python.
PythonTry(frame, tree) ==
  IF tree.ok
    THEN PythonResult(PythonLoop(ast_walk(tree), 1, Locals(frame)))
  ELSE IF IsSyntaxError(tree)
    THEN SyntaxErrorResult(Locals(frame).structures, Locals(frame).dependencies)
  ELSE Raised(tree.error, Locals(frame))

_parse_python(frame, content) ==
  IF content = None THEN Raised(ErrCompileArg, Locals(frame))
  ELSE PythonTry(frame, ast_parse(content))

(***************************************************************************)
(* self.patterns["uboot"]: the three patterns _parse_uboot_script uses.    *)
(***************************************************************************)
NotDQuote == Not(Chars(Of("\"")))
DollarBrace == Lit(S("${")) \o Lazy(Dot) \o Lit(S("}"))
uboot_env_var ==
  Lit(s_setenv) \o Plus(Space) \o Grp(1, Plus(Word)) \o Plus(Space)
      \o Opt(Lit(S("\""))) \o Grp(2, Plus(NotDQuote)) \o Opt(Lit(S("\"")))
uboot_boot_cmd ==
  Bol \o Grp(1, Lit(s_boot) \o Set(Chars(Of("zi")))) \o Plus(Space)
      \o Grp(2, Star(Dot)) \o Eol
uboot_load_cmd ==
  Opt(Grp(1, Lit(s_fat))) \o Lit(s_load) \o Plus(Space) \o Grp(2, Plus(Word))
      \o Plus(Space) \o Grp(3, DollarBrace) \o Plus(Space) \o Grp(4, DollarBrace)
      \o Plus(Space) \o Grp(5, Star(Dot))

UbootLine(st, line_num, raw) ==
  LET line == Strip(raw)
      e == Search(uboot_env_var, line)
      b == Search(uboot_boot_cmd, line)
      l == Search(uboot_load_cmd, line)
  IN IF e.ok THEN
       [st EXCEPT !.structures = Append(@, HAStructure("uboot_env", Group(e, line, 1),
                       << KV("value", VStr(Group(e, line, 2))),
                          KV("line", VInt(line_num)) >>))]
     ELSE IF b.ok THEN
       [st EXCEPT !.structures = Append(@, HAStructure("boot_command",
                       Group(b, line, 1),
                       << KV("parameters", VStr(Group(b, line, 2))),
                          KV("line", VInt(line_num)) >>))]
     ELSE IF l.ok THEN
       [st EXCEPT !.structures = Append(@, HAStructure("load_command",
                       OrElse(Group(l, line, 1), s_load),
                       << KV("device", VStr(Group(l, line, 2))),
                          KV("address", VStr(Group(l, line, 3))),
                          KV("file", VStr(Group(l, line, 5))),
                          KV("line", VInt(line_num)) >>))]
     ELSE st

RECURSIVE UbootLoop(_, _, _)
UbootLoop(lines, i, st) ==
  IF i > Len(lines) THEN st ELSE UbootLoop(lines, i + 1, UbootLine(st, i, lines[i]))

_parse_uboot_script(frame, content) ==
  IF content = None THEN Raised(ErrNoSplitlines, Locals(frame))
  ELSE LET st == UbootLoop(SplitLines(content), 1, Locals(frame))
       IN HAParseResult("uboot_script", st.structures, st.dependencies)

(***************************************************************************)
(* self.patterns["config"]: the four patterns _parse_config_in uses.       *)
(***************************************************************************)
\* (?=\n\w|$)
BlockEnd == Look(Alt(Lit(S("\n")) \o Set(Word), Eol))
config_config ==
  Lit(s_config) \o Plus(Space) \o Grp(1, Plus(Word)) \o Star(Space)
      \o Lit(S("\n")) \o Star(Space) \o Grp(2, Lazy(Dot)) \o BlockEnd
config_bool ==
  Lit(s_bool) \o Plus(Space) \o Lit(S("\"")) \o Grp(1, Plus(NotDQuote))
      \o Lit(S("\""))
config_depends ==
  Lit(s_depends) \o Plus(Space) \o Lit(s_on) \o Plus(Space) \o Grp(1, Plus(Dot))
      \o Eol
config_help ==
  Lit(s_help) \o Star(Space) \o Lit(S("\n")) \o Grp(1, Lazy(Dot)) \o BlockEnd

\* pattern.search(s, pos): the leftmost match starting at `from` or later.
SearchAt(pat, s, from) ==
  LET starts == {p \in from..Len(s) + 1 : Match(pat, s, p, NoCaps).ok}
  IN IF starts = {} THEN NoMatch
     ELSE [Match(pat, s, Min(starts), NoCaps) EXCEPT !.start = Min(starts)]

ErrNotString == S("expected string or bytes-like object, got 'NoneType'")

\* The body of the loop over finditer, for one match.
ConfigBlock(st, content, match) ==
  LET config_name == Group(match, content, 1)
      config_body == Group(match, content, 2)
      b == Search(config_bool, config_body)
      d == Search(config_depends, config_body)
      h == Search(config_help, config_body)
      details == (IF b.ok THEN << KV("type", VLit("bool")),
                                  KV("prompt", VStr(Group(b, config_body, 1))) >>
                  ELSE << KV("type", VLit("unknown")) >>)
                 \o (IF h.ok THEN << KV("help", VStr(Strip(Group(h, config_body, 1)))) >>
                     ELSE << >>)
  IN [structures |-> Append(st.structures,
                            HAStructure("config_option", config_name, details)),
      dependencies |-> IF d.ok
         THEN Append(st.dependencies,
                     << KV("from", VStr(config_name)),
                        KV("to", VStr(Group(d, config_body, 1))),
                        KV("type", VLit("depends")) >>)
         ELSE st.dependencies]

\* for match in patterns["config"].finditer(content): the matches do not
\* overlap, each search resuming where the last match ended.
RECURSIVE ConfigLoop(_, _, _)
ConfigLoop(content, from, st) ==
  LET match == SearchAt(config_config, content, from)
  IN IF ~match.ok THEN st
     ELSE ConfigLoop(content, match.end, ConfigBlock(st, content, match))

_parse_config_in(frame, content) ==
  IF content = None THEN Raised(ErrNotString, Locals(frame))
  ELSE LET st == ConfigLoop(content, 1, Locals(frame))
       IN HAParseResult("config_in", st.structures, st.dependencies)

(***************************************************************************)
(* _format_content: the canonical text.                                    *)
(***************************************************************************)
\* sep.join(strs)
Join(strs, sep) ==
  Flatten([j \in 1..2 * Len(strs) - 1 |->
             IF j % 2 = 1 THEN strs[(j + 1) \div 2] ELSE sep], 1)

\* What repr shows for one character, between quotes of the kind `quote`:
\* a backslash before the quote and the backslash, \t, \n and \r by their
\* letters, and any other character that is not printable by its code
\* point in two, four or eight hexadecimal digits.
ReprChar(c, quote) ==
  IF c = quote \/ c = Ord("\\") THEN << Ord("\\"), c >>
  ELSE IF c = Ord("\t") THEN S("\\t")
  ELSE IF c = Ord("\n") THEN S("\\n")
  ELSE IF c = Ord("\r") THEN S("\\r")
  ELSE IF IsPrintable(c) THEN << c >>
  ELSE IF c < 256 THEN S("\\x") \o Hex(c, 2)
  ELSE IF c < 65536 THEN S("\\u") \o Hex(c, 4)
  ELSE S("\\U") \o Hex(c, 8)

\* repr(s) for a str: double quotes when s holds ' and no ", else single
\* quotes.
ReprStr(s) ==
  LET chars == {s[i] : i \in 1..Len(s)}
      quote == IF Ord("'") \in chars /\ Ord("\"") \notin chars
                 THEN Ord("\"") ELSE Ord("'")
  IN << quote >> \o Flatten([i \in 1..Len(s) |-> ReprChar(s[i], quote)], 1)
       \o << quote >>

\* repr of a dictionary value, as a list or a dict shows its items
ReprOf(val) ==
  CASE val.k = "str" -> ReprStr(val.v)
    [] val.k = "lit" -> ReprStr(S(val.v))
    [] val.k = "int" -> IntStr(val.v)
    [] val.k = "none" -> S("None")

\* f"{value}"
StrOf(val) ==
  CASE val.k = "str" -> val.v
    [] val.k = "lit" -> S(val.v)
    [] val.k = "int" -> IntStr(val.v)
    [] val.k = "none" -> S("None")
    [] val.k = "list" ->
         S("[") \o Join([j \in 1..Len(val.v) |-> ReprStr(val.v[j])], S(", ")) \o S("]")
    [] val.k = "dict" ->
         S("{") \o Join([j \in 1..Len(val.v) |->
                          ReprStr(S(val.v[j].key)) \o S(": ") \o ReprOf(val.v[j].val)],
                        S(", ")) \o S("}")

StructLines(struct) ==
  << S("[") \o S(struct.type) \o S("] ") \o struct.name >>
    \o [j \in 1..Len(struct.details) |->
          S("  ") \o S(struct.details[j].key) \o S(": ")
            \o StrOf(struct.details[j].val)]

DepLines(dep) ==
  LET others == SelectSeq(dep, LAMBDA e : e.key # "type")
  IN << S("[dependency] ") \o (IF Has(dep, "type") THEN StrOf(Get(dep, "type"))
                               ELSE S("unknown")) >>
       \o [j \in 1..Len(others) |->
             S("  ") \o S(others[j].key) \o S(": ") \o StrOf(others[j].val)]

_format_content(parse_result) ==
  Join(Flatten([j \in 1..Len(parse_result.structures) |->
                  StructLines(parse_result.structures[j])], 1)
       \o Flatten([j \in 1..Len(parse_result.dependencies) |->
                  DepLines(parse_result.dependencies[j])], 1),
       S("\n"))

(***************************************************************************)
(* pathlib: Path(filename), its str() and its suffix.                      *)
(***************************************************************************)
\* The components of the path: empty and "." components are dropped.
PathParts(filename) ==
  SelectSeq(SplitOn(filename, Ord("/")), LAMBDA part : part # << >> /\ part # S("."))

RECURSIVE JoinParts(_, _)
JoinParts(parts, i) ==
  IF i > Len(parts) THEN << >>
  ELSE IF i = Len(parts) THEN parts[i]
  ELSE parts[i] \o S("/") \o JoinParts(parts, i + 1)

\* The root of a POSIX path: exactly two leading slashes are kept, any
\* other number of them is one.
PathRoot(filename) ==
  LET n == Len(filename)
  IN IF n = 0 \/ filename[1] # Ord("/") THEN << >>
     ELSE IF n >= 2 /\ filename[2] = Ord("/") /\ (n = 2 \/ filename[3] # Ord("/"))
       THEN S("//")
     ELSE S("/")

\* str(Path(filename))
PathStr(filename) ==
  LET parts == PathParts(filename)
      root == PathRoot(filename)
  IN IF Len(parts) = 0 /\ root = << >> THEN S(".")
     ELSE root \o JoinParts(parts, 1)

\* Path(filename).name
PathName(filename) ==
  LET parts == PathParts(filename)
  IN IF Len(parts) = 0 THEN << >> ELSE parts[Len(parts)]

\* Path(filename).suffix: from the last dot of the name, unless that dot
\* starts or ends the name.
PathSuffix(filename) ==
  LET name == PathName(filename)
      dots == {i \in 1..Len(name) : name[i] = Ord(".")}
  IN IF dots # {} /\ 1 < Max(dots) /\ Max(dots) < Len(name)
       THEN SubSeq(name, Max(dots), Len(name))
       ELSE << >>

ErrPathNone == S("expected str, bytes or os.PathLike object, not NoneType")
ErrUnsupported == S("Unsupported file type")

(***************************************************************************)
(* HomeAssistantParser.ingest                                              *)
(***************************************************************************)
\* DocumentExtraction(content=..., metadata=...)
DocumentExtraction(content, metadata) == [content |-> content, metadata |-> metadata]

SuccessExtraction(parse_result) ==
  DocumentExtraction(_format_content(parse_result),
    [file_type |-> parse_result.file_type,
     structures |-> parse_result.structures,
     dependencies |-> parse_result.dependencies,
     relationships |-> parse_result.relationships])

\* A variant of IngestExcept that logs the exception and yields nothing.
IngestExcept_silent(e) == << >>

\* The except Exception clause of ingest: what it yields for the exception e.
IngestExcept(e) ==
  << DocumentExtraction(S(""), [error |-> e.error]) >>

\* The branch on the suffix: the extractor that runs, None for no branch.
Extractor(file_type) ==
  CASE file_type = S(".mk") -> "_parse_makefile"
    [] file_type = S(".sh") -> "_parse_shell"
    [] file_type = S(".py") -> "_parse_python"
    [] file_type = S(".ush") -> "_parse_uboot_script"
    [] file_type = S(".in") -> "_parse_config_in"
    [] file_type = S(".cfg") -> "_parse_genimage"
    [] OTHER -> "None"

RunExtractor(frame, extractor, content) ==
  CASE extractor = "_parse_makefile" -> _parse_makefile(frame, content)
    [] extractor = "_parse_shell" -> _parse_shell(frame, content)
    [] extractor = "_parse_python" -> _parse_python(frame, content)
    [] extractor = "_parse_uboot_script" -> _parse_uboot_script(frame, content)
    [] extractor = "_parse_config_in" -> _parse_config_in(frame, content)
    [] extractor = "_parse_genimage" -> _parse_genimage(frame, content)

\* `if parse_result:` an HAParseResult is an object with no __bool__ or
\* __len__, so it is true whatever it holds; None is false.
Truthy(extractor) == extractor # "None"

\* One call of ingest, run to exhaustion: what it yields and whether an
\* exception leaves it.
Outcome(extractor, parse_result) ==
  [extractor |-> extractor,
   parse_result |-> parse_result,
   emitted |-> IF IsRaised(parse_result) THEN IngestExcept(parse_result)
               ELSE IF Truthy(extractor) THEN << SuccessExtraction(parse_result) >>
               ELSE << DocumentExtraction(S(""), [error |-> ErrUnsupported]) >>,
   escaped |-> FALSE]

Branch(frame, extractor, content) ==
  Outcome(extractor,
          IF extractor = "None" THEN [raised |-> FALSE]
          ELSE RunExtractor(frame, extractor, content))

\* ingest on an instance whose last extractor left `frame`
ingest(frame, document) ==
  IF document.filename = None
    THEN Outcome("None", Raised(ErrPathNone, frame))
    ELSE Branch(frame, Extractor(ToLower(PathSuffix(document.filename))),
                document.content)

\* The name the last structure of a type has, None if there is none
RECURSIVE LastNamed(_, _, _)
LastNamed(structures, type, i) ==
  IF i = 0 THEN None
  ELSE IF structures[i].type = type THEN structures[i].name
  ELSE LastNamed(structures, type, i - 1)

\* The locals a call of ingest leaves behind: a call that runs no extractor
\* leaves them as they were, an extractor that raised leaves them as they
\* were at the raise, and one that returned leaves its collections and the
\* name of the last function header or image block it met.
FrameAfter(frame, r) ==
  IF r.extractor = "None" THEN frame
  ELSE IF IsRaised(r.parse_result) THEN r.parse_result.locals
  ELSE [Locals(frame) EXCEPT
          !.structures = r.parse_result.structures,
          !.dependencies = r.parse_result.dependencies,
          !.current_function =
            IF r.extractor = "_parse_shell"
              THEN LastNamed(r.parse_result.structures, "function",
                             Len(r.parse_result.structures))
              ELSE None,
          !.current_image =
            IF r.extractor = "_parse_genimage"
              THEN LastNamed(r.parse_result.structures, "image",
                             Len(r.parse_result.structures))
              ELSE None]

(***************************************************************************)
(* GenericCodeParser                                                       *)
(***************************************************************************)
\* The markers _detect_repo_type looks for
Markers ==
  { S("home-assistant"),
    S("hassio"),
    S("homeassistant") }

_detect_repo_type(filename) ==
  LET path_str == ToLower(PathStr(filename))
  IN IF \E x \in Markers : Contains(path_str, x) THEN "home-assistant" ELSE "unknown"

\* The class attribute REPO_PARSERS: tag -> parser name
REPO_PARSERS == [tag \in {"home-assistant"} |-> "HAParser"]

\* The names the module ha_parser binds (its imports, logger and classes):
\* what `from .ha_parser import <name>` can import.
ha_parser_names ==
  {"AsyncGenerator", "Dict", "Any", "List", "Optional", "Path", "logging", "ast",
   "re", "dataclass", "AsyncParser", "Document", "DocumentExtraction", "logger",
   "HAStructure", "HAParseResult", "HomeAssistantParser"}

\* No parser: what _get_parser_for_repo returns as None.
NoParser == [parser |-> "None"]

\* _get_parser_for_repo(repo_type): the constructed parser, or NoParser.  A
\* failing import raises ImportError, which the method catches to return None.
_get_parser_for_repo(repo_type) ==
  IF repo_type \notin DOMAIN REPO_PARSERS THEN NoParser
  ELSE IF repo_type = "home-assistant" THEN
    (IF "HAParser" \in ha_parser_names
       THEN [parser |-> "HAParser"]
       ELSE NoParser)
  ELSE NoParser

\* bytes.decode('utf-8', errors='ignore'): a sequence of one to four bytes
\* that encodes a code point gives it (overlong forms, surrogates and what
\* lies beyond U+10FFFF encode none); of any other bytes the longest start
\* of a sequence is dropped, which is at least one byte.
IsTrail(bytes, j, lo, hi) == j <= Len(bytes) /\ bytes[j] >= lo /\ bytes[j] <= hi

RECURSIVE DecodeFrom(_, _)
DecodeFrom(bytes, i) ==
  IF i > Len(bytes) THEN << >>
  ELSE LET b == bytes[i]
           \* the range of the second byte after the lead byte b
           lo == IF b = 224 THEN 160 ELSE IF b = 240 THEN 144 ELSE 128
           hi == IF b = 237 THEN 159 ELSE IF b = 244 THEN 143 ELSE 191
           \* how many bytes the sequence has, and how many of them are there
           n == IF b < 128 THEN 1
                ELSE IF b >= 194 /\ b <= 223 THEN 2
                ELSE IF b >= 224 /\ b <= 239 THEN 3
                ELSE IF b >= 240 /\ b <= 244 THEN 4
                ELSE 0
           got == IF n < 2 \/ ~IsTrail(bytes, i + 1, lo, hi) THEN 1
                  ELSE IF n < 3 \/ ~IsTrail(bytes, i + 2, 128, 191) THEN 2
                  ELSE IF n < 4 \/ ~IsTrail(bytes, i + 3, 128, 191) THEN 3
                  ELSE 4
       IN IF n = 0 \/ got < n THEN DecodeFrom(bytes, i + got)
          ELSE << CASE n = 1 -> b
                    [] n = 2 -> (b - 192) * 64 + (bytes[i + 1] - 128)
                    [] n = 3 -> (b - 224) * 4096 + (bytes[i + 1] - 128) * 64
                                  + (bytes[i + 2] - 128)
                    [] n = 4 -> (b - 240) * 262144 + (bytes[i + 1] - 128) * 4096
                                  + (bytes[i + 2] - 128) * 64 + (bytes[i + 3] - 128) >>
                 \o DecodeFrom(bytes, i + n)

Decode(bytes) == DecodeFrom(bytes, 1)

\* GenericCodeParser.ingest is an async generator: a call runs up to a
\* yield and stays there until its consumer asks for the next chunk.  A
\* call is held as the record of its arguments, the repository type
\* detected, what line 111 assigned to specific_parser, the chunks yielded
\* so far (a chunk is a str, held as its code points), and pc: the line of
\* the yield it is suspended at, "115" in the loop over the specific
\* parser's ingest, or "done".
GenericYield(st, pc, chunk) ==
  [st EXCEPT !.pc = pc, !.chunks = Append(@, chunk)]

GenericDone(st) == [st EXCEPT !.pc = "done"]

\* Lines 117-125: the fallback decodes the data and yields the text;
\* data.decode on a str raises AttributeError inside the try, and the
\* except clause yields "".
Fallback(st) ==
  IF st.data.type = "bytes" THEN GenericYield(st, "121", Decode(st.data.value))
  ELSE GenericYield(st, "125", << >>)

\* The call, up to its first yield.  Line 111 assigns what
\* _get_parser_for_repo returns; the loop at 115-116 runs the ingest of a
\* class the repository does not define, and no value _get_parser_for_repo
\* returns leads there.
generic_ingest(data, filename) ==
  LET missing == filename = None \/ filename = << >>
      repo_type == IF missing THEN "" ELSE _detect_repo_type(filename)
      st == [kind |-> "generic", data |-> data, filename |-> filename,
             repo_type |-> repo_type,
             specific_parser |-> IF missing THEN NoParser
                                 ELSE _get_parser_for_repo(repo_type),
             chunks |-> << >>, escaped |-> FALSE, pc |-> "98"]
  IN IF missing THEN GenericYield(st, "103", << >>)
     ELSE IF st.specific_parser # NoParser THEN [st EXCEPT !.pc = "115"]
     ELSE Fallback(st)

\* A variant of generic_resume in which the return of line 104 is missing:
\* after the "" of line 103 the call goes on with the empty filename, finds
\* no parser for it and falls back.
generic_resume_noreturn(st) ==
  IF st.pc = "103" THEN Fallback(st) ELSE GenericDone(st)

\* The consumer asks for the next chunk of a call suspended at the yield of
\* line 103, 121 or 125: line 104 returns, and after the other two yields
\* the body has ended.
generic_resume(st) == GenericDone(st)

(***************************************************************************)
(* VectorStoragePipe._run_logic                                            *)
(***************************************************************************)
\* document_counts[document_id] = document_counts.get(document_id, 0) + 1
\* A variant of CountUp in which a key seen again moves to the end, as if it
\* were deleted and inserted anew.
CountUp_moved(document_counts, document_id) ==
  IF Has(document_counts, document_id)
    THEN LET j == CHOOSE j \in 1..Len(document_counts) :
                    document_counts[j].key = document_id
         IN Append(SelectSeq(document_counts, LAMBDA kv : kv.key # document_id),
                   KV(document_id, document_counts[j].val + 1))
    ELSE Append(document_counts, KV(document_id, 1))

CountUp(document_counts, document_id) ==
  IF Has(document_counts, document_id)
    THEN [j \in 1..Len(document_counts) |->
            IF document_counts[j].key = document_id
              THEN KV(document_id, document_counts[j].val + 1)
              ELSE document_counts[j]]
    ELSE Append(document_counts, KV(document_id, 1))

\* A variant of Stored in which a batch whose store call raised is passed
\* to store once more.
Stored_retried(stores, vector_batch, ok) ==
  IF ok THEN Append(stores, [batch |-> vector_batch, ok |-> TRUE])
  ELSE Append(Append(stores, [batch |-> vector_batch, ok |-> FALSE]),
              [batch |-> vector_batch, ok |-> TRUE])

\* `try: await self.store(vector_batch)` with `except Exception` that logs:
\* the call is made once, whether it returns or raises.
Stored(stores, vector_batch, ok) ==
  Append(stores, [batch |-> vector_batch, ok |-> ok])

StorageResult(document_id, num_chunks, success) ==
  [document_id |-> document_id, num_chunks |-> num_chunks, success |-> success]

(***************************************************************************)
(* The inputs.                                                             *)
(***************************************************************************)
\* Lines of shell scripts
\*   'FOO() {'
\*   'BAR=1'
\*   'export BAR'
\*   '}'
\*   '. lib'
\*   'function \u0100(){'
\*   'A=b\\c\r'
ShellLines ==
  { S("FOO() {"),
    S("BAR=1"),
    S("export BAR"),
    S("}"),
    S(". lib"),
    (S("function ") \o <<256>> \o S("(){")),
    S("A=b\\c\r") }

\* Lines of makefiles
\*   'a_DEPENDENCIES = b c'
\*   'A_VERSION = 1'
\*   '$(eval $(p))'
\*   '$(eval $())'
\*   '\u044f_DEPENDENCIES ='
MakefileLines ==
  { S("a_DEPENDENCIES = b c"),
    S("A_VERSION = 1"),
    S("$(eval $(p))"),
    S("$(eval $())"),
    (<<1103>> \o S("_DEPENDENCIES =")) }

\* Lines of genimage configurations
\*   'image foo {'
\*   ' size = 10M'
\*   'include("x")'
\*   'image "" {'
\*   '}'
GenimageLines ==
  { S("image foo {"),
    S(" size = 10M"),
    S("include(\"x\")"),
    S("image \"\" {"),
    S("}") }

\* Lines of Python files, one of them a class head over two lines
\*   'import os'
\*   'from sys import \ufb01'
\*   'def f(a,\u0100): pass'
\*   'class C(\nB): pass'
\*   'def f(:'
\*   'class D:'
\*   '    def m(s): pass'
\*   '# \udc80'
PythonLines ==
  { S("import os"),
    (S("from sys import ") \o <<64257>>),
    (S("def f(a,") \o <<256>> \o S("): pass")),
    S("class C(\nB): pass"),
    S("def f(:"),
    S("class D:"),
    S("    def m(s): pass"),
    (S("# ") \o <<56448>>) }

\* Lines of U-Boot scripts
\*   'setenv a b'
\*   'bootz x'
\*   'fatload m ${a} ${b} f'
\*   'load m ${a} ${b} f'
\*   'setenv é b\\c'
UbootLines ==
  { S("setenv a b"),
    S("bootz x"),
    S("fatload m ${a} ${b} f"),
    S("load m ${a} ${b} f"),
    (S("setenv ") \o <<233>> \o S(" b\\c")) }

\* Lines of Config.in files
\*   'config FOO'
\*   'bool "x"'
\*   'depends on BAR'
\*   'x'
ConfigLines ==
  { S("config FOO"),
    S("bool \"x\""),
    S("depends on BAR"),
    S("x") }

\* File names by the extractor their suffix selects
\*   'a.sh'
\*   'd/B.SH'
ShellNames ==
  { S("a.sh"),
    S("d/B.SH") }

\* 
\*   'p.mk'
\*   'a.tar.M\u212a'
MakefileNames ==
  { S("p.mk"),
    (S("a.tar.M") \o <<8490>>) }

\* 
\*   'g.cfg'
\*   './G.Cfg'
GenimageNames ==
  { S("g.cfg"),
    S("./G.Cfg") }

\* 
\*   'x.py'
\*   'y.PY/'
PythonNames ==
  { S("x.py"),
    S("y.PY/") }

\* 
\*   'u.ush'
UbootNames ==
  { S("u.ush") }

\* 
\*   'Config.in'
ConfigNames ==
  { S("Config.in") }

\* File names whose suffix selects no extractor
\*   'a.xyz'
\*   '.sh'
\*   'noext'
\*   'a.cfg.'
\*   'd.sh/f'
OtherNames ==
  { S("a.xyz"),
    S(".sh"),
    S("noext"),
    S("a.cfg."),
    S("d.sh/f") }

\* The filename keyword of GenericCodeParser.ingest
\*   'home-assistant/a.sh'
\*   'x/HassIO/b.py'
\*   'HomeAssistant.cfg'
\*   'x/HASS\u0130O/b.py'
\*   './a.txt'
\*   'home/assistant'
\*   ''
GenericNames ==
  { S("home-assistant/a.sh"),
    S("x/HassIO/b.py"),
    S("HomeAssistant.cfg"),
    (S("x/HASS") \o <<304>> \o S("O/b.py")),
    S("./a.txt"),
    S("home/assistant"),
    <<>> }

\* A document whose content is not a str
NoContent == None

MaxLines == 3
MaxEntries == 4
MaxBatchSize == 3
MaxSessionLines == 1

\* "\n".join(lines)
RECURSIVE JoinLinesFrom(_, _)
JoinLinesFrom(lines, i) ==
  IF i > Len(lines) THEN << >>
  ELSE IF i = Len(lines) THEN lines[i]
  ELSE lines[i] \o S("\n") \o JoinLinesFrom(lines, i + 1)

\* The formats: the names that select an extractor and lines of its format
Pools ==
  { [names |-> ShellNames, lines |-> ShellLines],
    [names |-> MakefileNames, lines |-> MakefileLines],
    [names |-> GenimageNames, lines |-> GenimageLines],
    [names |-> PythonNames, lines |-> PythonLines],
    [names |-> UbootNames, lines |-> UbootLines],
    [names |-> ConfigNames, lines |-> ConfigLines] }

\* The texts of k lines of a pool
Contents(lines, k) == {JoinLinesFrom(ls, 1) : ls \in [1..k -> lines]}

\* The documents handed to HomeAssistantParser.ingest: each text of k lines
\* of a format, and no text, under the names of the format, under the
\* unsupported names and under no name.
Documents(pool, k) ==
  {[filename |-> f, content |-> c] :
     f \in pool.names \cup OtherNames \cup {None},
     c \in Contents(pool.lines, k) \cup {NoContent}}

\* The documents ingested one after the other on one instance: texts of at
\* most MaxSessionLines lines under a name of their format, and one name
\* of no format.
SessionContents(lines) ==
  UNION {Contents(lines, k) : k \in 0..MaxSessionLines}

SessionDocsOf(names, lines) ==
  {[filename |-> f, content |-> c] : f \in names, c \in SessionContents(lines)}

SessionDocuments ==
  UNION {SessionDocsOf({S("a.sh")}, ShellLines),
         SessionDocsOf({S("p.mk")}, MakefileLines),
         SessionDocsOf({S("g.cfg")}, GenimageLines),
         SessionDocsOf({S("x.py")}, PythonLines),
         SessionDocsOf(UbootNames, UbootLines),
         SessionDocsOf(ConfigNames, ConfigLines),
         SessionDocsOf({S("a.xyz")}, {S("BAR=1")})}

\* The data handed to GenericCodeParser.ingest: bytes, or a str by mistake
Datas ==
  {[type |-> "bytes", value |-> b] :
     b \in {<< >>, <<97>>, <<97, 255, 98>>, <<195, 169>>, <<195>>, <<128, 99>>,
           <<226, 130, 172>>, <<240, 159, 152>>}}
    \cup {[type |-> "str", value |-> <<97>>]}

\* The tags handed to _get_parser_for_repo
Tags == {"home-assistant", "unknown", "hassio", "other-repo", ""}

\* The input lists of the storage pipe: entries by their document id
DocumentIds == {"d1", "d2"}
Messages == UNION {[1..k -> DocumentIds] : k \in 0..MaxEntries}

(***************************************************************************)
(* The state: the parser call made, with its outcome, and the run of the   *)
(* storage pipe.                                                           *)
(***************************************************************************)
VARIABLES call, pipe

vars == << call, pipe >>

PipeIdle ==
  [pc |-> "idle", message |-> << >>, storage_batch_size |-> 1, i |-> 1,
   vector_batch |-> << >>, document_counts |-> << >>, stores |-> << >>,
   results |-> << >>]

Init ==
  /\ call = [kind |-> "none"]
  /\ pipe = PipeIdle

HACall(document, r) ==
  [kind |-> "ha", document |-> document, extractor |-> r.extractor,
   parse_result |-> r.parse_result, emitted |-> r.emitted, escaped |-> r.escaped]

SessionCall(n, first, frame, document, r) ==
  [kind |-> "session", n |-> n, first |-> first, frame |-> FrameAfter(frame, r),
   document |-> document, emitted |-> r.emitted, escaped |-> r.escaped]

\* parser = HomeAssistantParser(); parser.ingest(document), consumed to its end
SessionFirst ==
  /\ call.kind = "none"
  /\ \E document \in SessionDocuments :
      /\ call' = SessionCall(1, [kind |-> "none"], NoFrame, document,
                    ingest(NoFrame, document))
      /\ UNCHANGED pipe

\* parser.ingest(document) once more, on the same instance
SessionNext ==
  /\ call.kind = "session"
  /\ call.n = 1
  /\ \E document \in SessionDocuments :
      /\ call' = SessionCall(2, [document |-> call.document, emitted |-> call.emitted],
                    call.frame, document, ingest(call.frame, document))
      /\ UNCHANGED pipe

\* HomeAssistantParser().ingest(document), consumed to its end
HAIngest ==
  /\ call.kind = "none"
  /\ \E pool \in Pools, k \in 0..MaxLines :
       \E document \in Documents(pool, k) :
         /\ call' = HACall(document, ingest(NoFrame, document))
         /\ UNCHANGED pipe

\* GenericCodeParser()._get_parser_for_repo(repo_type)
GetParser ==
  /\ call.kind = "none"
  /\ \E repo_type \in Tags :
    /\ call' = [kind |-> "dispatch", repo_type |-> repo_type,
                result |-> _get_parser_for_repo(repo_type), raised |-> FALSE]
    /\ UNCHANGED pipe

\* GenericCodeParser().ingest(data, filename=...) is asked for its first
\* chunk
GenericIngest ==
  /\ call.kind = "none"
  /\ \E data \in Datas, filename \in GenericNames \cup {None} :
      /\ call' = generic_ingest(data, filename)
      /\ UNCHANGED pipe

\* The call suspended at a yield is asked for its next chunk
GenericResume ==
  /\ call.kind = "generic"
  /\ call.pc \in {"103", "121", "125"}
  /\ call' = generic_resume(call)
  /\ UNCHANGED pipe

\* _run_logic is called with an input and a batch size
PipeRun ==
  \E message \in Messages, size \in 1..MaxBatchSize :
    /\ pipe.pc \in {"idle", "done"}
    /\ pipe' = [PipeIdle EXCEPT !.pc = "loop", !.message = message,
                                !.storage_batch_size = size]
    /\ UNCHANGED call

\* One iteration of `for msg in input.message`, up to the store call of a
\* full batch (line 72), where _run_logic waits for store.
PipeLoop ==
  /\ pipe.pc = "loop"
  /\ pipe.i <= Len(pipe.message)
  /\ LET msg == [document_id |-> pipe.message[pipe.i], index |-> pipe.i]
         vector_batch == Append(pipe.vector_batch, msg)
     IN pipe' = [pipe EXCEPT
                   !.i = @ + 1,
                   !.vector_batch = vector_batch,
                   !.document_counts = CountUp(@, msg.document_id),
                   !.pc = IF Len(vector_batch) >= pipe.storage_batch_size
                            THEN "store" ELSE "loop"]
  /\ UNCHANGED call

\* After the loop: the store call of what is left, if anything (line 79)
PipeFinal ==
  /\ pipe.pc = "loop"
  /\ pipe.i > Len(pipe.message)
  /\ pipe' = [pipe EXCEPT
                !.pc = IF Len(pipe.vector_batch) > 0 THEN "final_store" ELSE "yield"]
  /\ UNCHANGED call

\* store(vector_batch): upsert_entries returns, or raises and store raises
\* ValueError; _run_logic holds the batch while it waits.
PipeStore ==
  /\ pipe.pc \in {"store", "final_store"}
  /\ \E ok \in BOOLEAN :
       pipe' = [pipe EXCEPT
                  !.stores = Stored(@, pipe.vector_batch, ok),
                  !.pc = IF pipe.pc = "store" THEN "stored" ELSE "final_stored"]
  /\ UNCHANGED call

\* store has returned or raised: the except clause logs, a batch of the
\* loop is cleared (line 75) and the loop goes on; the final batch is left
\* as it is.
PipeStored ==
  /\ pipe.pc \in {"stored", "final_stored"}
  /\ pipe' = IF pipe.pc = "stored"
               THEN [pipe EXCEPT !.pc = "loop", !.vector_batch = << >>]
               ELSE [pipe EXCEPT !.pc = "yield"]
  /\ UNCHANGED call

\* One iteration of `for document_id, count in document_counts.items()`
PipeYield ==
  /\ pipe.pc = "yield"
  /\ Len(pipe.results) < Len(pipe.document_counts)
  /\ LET item == pipe.document_counts[Len(pipe.results) + 1]
     IN pipe' = [pipe EXCEPT
                   !.results = Append(@, StorageResult(item.key, item.val, TRUE))]
  /\ UNCHANGED call

\* The generator is exhausted
PipeReturn ==
  /\ pipe.pc = "yield"
  /\ Len(pipe.results) = Len(pipe.document_counts)
  /\ pipe' = [pipe EXCEPT !.pc = "done"]
  /\ UNCHANGED call

ParserNext == HAIngest \/ GetParser \/ GenericIngest \/ GenericResume
SessionStep == SessionFirst \/ SessionNext
PipeNext ==
  PipeRun \/ PipeLoop \/ PipeFinal \/ PipeStore \/ PipeStored \/ PipeYield \/ PipeReturn
Next == ParserNext \/ SessionStep \/ PipeNext

\* The parsers alone, two calls on one instance, the storage pipe alone,
\* and all together
SpecParsers == Init /\ [][ParserNext]_vars
SpecSession == Init /\ [][SessionStep]_vars
SpecPipe == Init /\ [][PipeNext]_vars
Spec == Init /\ [][Next]_vars

(***************************************************************************)
(* Properties of HomeAssistantParser.ingest                                *)
(***************************************************************************)
\* C1: a call of HomeAssistantParser.ingest emits exactly one record and lets
\* no exception escape; the record is either a success record, whose
\* metadata holds file_type, structures, dependencies and an empty
\* relationships list, or an error record with content "" and metadata.error.
C1_ExactlyOneEmission ==
  call.kind = "ha" =>
    /\ Len(call.emitted) = 1
    /\ ~call.escaped
    /\ LET e == call.emitted[1]
       IN \/ /\ DOMAIN e.metadata =
                  {"file_type", "structures", "dependencies", "relationships"}
             /\ e.metadata.relationships = << >>
          \/ /\ DOMAIN e.metadata = {"error"}
             /\ e.content = S("")

\* C1: an extractor ran and raised, and the call emitted one record
C1_ExtractorRaised ==
  /\ call.kind = "ha"
  /\ call.extractor # "None"
  /\ IsRaised(call.parse_result)
  /\ Len(call.emitted) = 1

\* C2: the emission is the "Unsupported file type" error record exactly when
\* the lower-cased suffix is none of .mk .sh .py .ush .in .cfg; for each of
\* the six the matching extractor runs and returns a ParseResult of the
\* matching file_type (content being a str, possibly empty).
C2_SuffixDecides ==
  (call.kind = "ha" /\ call.document.filename # None /\ call.document.content # None) =>
    LET suffix == ToLower(PathSuffix(call.document.filename))
        kinds == { << S(".mk"), "_parse_makefile", "makefile" >>,
                   << S(".sh"), "_parse_shell", "shell" >>,
                   << S(".py"), "_parse_python", "python" >>,
                   << S(".ush"), "_parse_uboot_script", "uboot_script" >>,
                   << S(".in"), "_parse_config_in", "config_in" >>,
                   << S(".cfg"), "_parse_genimage", "genimage" >> }
        unsupported ==
          call.emitted = << [content |-> S(""), metadata |-> [error |-> ErrUnsupported]] >>
    IN /\ unsupported <=> suffix \notin {k[1] : k \in kinds}
       /\ \A k \in kinds :
            suffix = k[1] =>
              /\ call.extractor = k[2]
              /\ ~IsRaised(call.parse_result)
              /\ call.parse_result.file_type = k[3]

(***************************************************************************)
(* Properties of GenericCodeParser                                         *)
(***************************************************************************)
\* C3: a call of GenericCodeParser.ingest yields exactly one chunk and lets
\* no exception escape, whatever its input: at no point has it yielded more
\* than one chunk, and when its generator has ended it has yielded one.
C3_ExactlyOneChunk ==
  call.kind = "generic" =>
    /\ ~call.escaped
    /\ Len(call.chunks) <= 1
    /\ call.pc = "done" => Len(call.chunks) = 1

\* A call has ended whose path has the registered type, for which the
\* dispatcher returned None, and whose data was a str: the exception of
\* data.decode was caught and "" is the one chunk.
C3_CaughtAfterDispatch ==
  /\ call.kind = "generic"
  /\ call.pc = "done"
  /\ call.repo_type = "home-assistant"
  /\ call.specific_parser = NoParser
  /\ call.data.type = "str"
  /\ call.chunks = << << >> >>

\* C4: _get_parser_for_repo returns a parser for the registered tag
\* "home-assistant", None for a tag REPO_PARSERS does not hold, and never
\* raises.
C4_DispatchReturnsParser ==
  call.kind = "dispatch" =>
    /\ ~call.raised
    /\ call.repo_type = "home-assistant" => call.result # NoParser
    /\ call.repo_type \notin DOMAIN REPO_PARSERS => call.result = NoParser

(***************************************************************************)
(* Properties of VectorStoragePipe._run_logic                              *)
(***************************************************************************)
\* C5: the count reported for a document is the number of its entries in
\* the batches whose store call succeeded.
C5_CountsStoredEntries ==
  LET stored == {x \in 1..Len(pipe.message) :
                   \E s \in 1..Len(pipe.stores) :
                     /\ pipe.stores[s].ok
                     /\ \E j \in 1..Len(pipe.stores[s].batch) :
                          pipe.stores[s].batch[j].index = x}
  IN \A k \in 1..Len(pipe.results) :
       pipe.results[k].num_chunks =
         Cardinality({x \in stored : pipe.message[x] = pipe.results[k].document_id})

(***************************************************************************)
(* Properties of the extractors                                            *)
(***************************************************************************)
\* C6: in _parse_genimage, when the latest image line before a size line
\* names a non-empty image, the extraction returns a ParseResult, the line
\* appends no structure, and the structure of that image holds the value of
\* the last such size line, quotes stripped, as details.properties.size.
C6_SizeSetsProperty ==
  (call.kind = "ha" /\ call.extractor = "_parse_genimage" /\ call.document.content # None) =>
    LET lines == SplitLines(call.document.content)
        image(i) == Search(genimage_image_def, lines[i])
        name(i) == StripChars(Group(image(i), lines[i], 1), Quote)
        size(i) == Search(genimage_size, lines[i])
        images == {i \in 1..Len(lines) : image(i).ok}
        open(j) == Max({0} \cup {i \in images : i < j})
        sized == {j \in 1..Len(lines) \ images :
                    size(j).ok /\ open(j) > 0 /\ name(open(j)) # << >>}
        last == {j \in sized : ~\E l \in sized : l > j /\ name(open(l)) = name(open(j))}
        includes == {i \in 1..Len(lines) \ (images \cup sized) :
                       Search(genimage_include, lines[i]).ok}
    IN sized # {} =>
         /\ ~IsRaised(call.parse_result)
         /\ Len(call.parse_result.structures) = Cardinality(images \cup includes)
         /\ \A j \in last :
              \E k \in 1..Len(call.parse_result.structures) :
                LET s == call.parse_result.structures[k]
                IN /\ s.type = "image"
                   /\ s.name = name(open(j))
                   /\ Has(Get(s.details, "properties").v, "size")
                   /\ Get(Get(s.details, "properties").v, "size").v =
                        StripChars(Group(size(j), lines[j], 1), Quote)

\* C7: in _parse_shell, the scope of a variable or export structure is the
\* name of the latest function header on an earlier line, "global" if no
\* earlier line is one; a closing brace in between changes nothing.
C7_ScopeIsLatestHeader ==
  (call.kind = "ha" /\ call.extractor = "_parse_shell" /\ call.document.content # None) =>
    LET lines == SplitLines(call.document.content)
        header(i) == Search(shell_function_def, Strip(lines[i]))
        before(n) == {i \in 1..(n - 1) : header(i).ok}
        structs == call.parse_result.structures
    IN \A k \in 1..Len(structs) :
         structs[k].type \in {"variable", "export"} =>
           LET n == Get(structs[k].details, "line").v
               scope == Get(structs[k].details, "scope").v
           IN IF before(n) = {} THEN scope = S("global")
              ELSE scope = Group(header(Max(before(n))), Strip(lines[Max(before(n))]), 1)

\* C7: a variable or export after the closing brace of a function has the
\* function as its scope
C7_ScopeAfterBrace ==
  /\ call.kind = "ha"
  /\ call.extractor = "_parse_shell"
  /\ call.document.content # None
  /\ LET lines == SplitLines(call.document.content)
         structs == call.parse_result.structures
     IN \E k \in 1..Len(structs), j \in 2..Len(lines) :
          /\ structs[k].type \in {"variable", "export"}
          /\ Strip(lines[j]) = S("}")
          /\ Search(shell_function_def, Strip(lines[j - 1])).ok
          /\ j < Get(structs[k].details, "line").v
          /\ Get(structs[k].details, "scope").v =
               Group(Search(shell_function_def, Strip(lines[j - 1])), Strip(lines[j - 1]), 1)

\* C8, as the code has it: an unsupported suffix gives the one error record
\* with content ""; a Python file with a syntax error gives one success
\* record whose content is the rendered error structure; and without a
\* specific parser GenericCodeParser.ingest yields the decoded bytes, which
\* for ASCII bytes is the text itself.
C8_ContentOfRejectedFiles ==
  /\ (call.kind = "ha" /\ call.document.filename # None /\ call.extractor = "None") =>
       call.emitted = << [content |-> S(""), metadata |-> [error |-> ErrUnsupported]] >>
  /\ (/\ call.kind = "ha"
      /\ call.extractor = "_parse_python"
      /\ call.document.content # None
      /\ IsSyntaxError(ast_parse(call.document.content))) =>
       /\ Len(call.emitted) = 1
       /\ call.emitted[1].content =
            S("[error] syntax_error\n  message: Invalid Python syntax")
  /\ (/\ call.kind = "generic"
      /\ call.filename # None /\ call.filename # << >>
      /\ call.specific_parser = NoParser
      /\ call.data.type = "bytes"
      /\ \A i \in 1..Len(call.data.value) : call.data.value[i] < 128) =>
       call.chunks = << call.data.value >>

\* C8: a Python file with a syntax error after a valid first line was
\* ingested, and its emission has content
C8_SyntaxErrorHasContent ==
  /\ call.kind = "ha"
  /\ call.extractor = "_parse_python"
  /\ call.document.content # None
  /\ IsSyntaxError(ast_parse(call.document.content))
  /\ Len(SplitLines(call.document.content)) > 1
  /\ call.emitted[1].content # S("")

\* C8, as stated: the one emission of a Python file with a syntax error, of
\* a file of unsupported suffix, and of a file GenericCodeParser has no
\* specific parser for, has empty content.
C8_EmptyContent ==
  /\ (/\ call.kind = "ha"
      /\ call.document.filename # None
      /\ call.document.content # None
      /\ \/ call.extractor = "None"
         \/ call.extractor = "_parse_python" /\ IsSyntaxError(ast_parse(call.document.content))) =>
       /\ Len(call.emitted) = 1
       /\ call.emitted[1].content = S("")
  /\ (call.kind = "generic" /\ call.specific_parser = NoParser) =>
       call.chunks = << << >> >>

\* C9: in _parse_python, content with a syntax error returns a ParseResult
\* with exactly one structure, of type "error", and no dependency; nothing
\* of the lines before the error is in it and nothing is raised.
C9_SyntaxErrorAlone ==
  (/\ call.kind = "ha"
   /\ call.extractor = "_parse_python"
   /\ call.document.content # None
   /\ IsSyntaxError(ast_parse(call.document.content))) =>
    /\ ~IsRaised(call.parse_result)
    /\ Len(call.parse_result.structures) = 1
    /\ call.parse_result.structures[1].type = "error"
    /\ call.parse_result.dependencies = << >>

\* C9: the content starts with an import and a function definition, and a
\* later line has the syntax error
C9_ErrorAfterValidLines ==
  /\ call.kind = "ha"
  /\ call.extractor = "_parse_python"
  /\ call.document.content # None
  /\ LET lines == SplitLines(call.document.content)
     IN /\ Len(lines) = 3
        /\ ast_parse(lines[1] \o S("\n") \o lines[2]).ok
        /\ Len(PythonTry(NoFrame, ast_parse(lines[1] \o S("\n") \o lines[2])).structures) = 1
        /\ Len(PythonTry(NoFrame, ast_parse(lines[1] \o S("\n") \o lines[2])).dependencies) = 1
        /\ IsSyntaxError(ast_parse(call.document.content))
  /\ Len(call.parse_result.structures) = 1

\* C10: in _parse_makefile, a line <pkg>_DEPENDENCIES = t1 ... tn gives n
\* edges (from pkg, to ti, type "package_dependency") in token order and no
\* structure, and the edges of successive lines follow in line order.
C10_OneEdgePerToken ==
  (call.kind = "ha" /\ call.extractor = "_parse_makefile" /\ call.document.content # None) =>
    LET lines == SplitLines(call.document.content)
        line(i) == Strip(lines[i])
        version(i) == Search(makefile_package_def, line(i))
        deps(i) == Search(makefile_package_deps, line(i))
        deplines == {i \in 1..Len(lines) : deps(i).ok /\ ~version(i).ok}
        tokens(i) == Split(Group(deps(i), line(i), 2))
        slots == UNION {{<<i, k>> : k \in 1..Len(tokens(i))} : i \in deplines}
        pos(s) == Cardinality({r \in slots : r[1] < s[1] \/ (r[1] = s[1] /\ r[2] <= s[2])})
        D == call.parse_result.dependencies
    IN /\ Len(D) = Cardinality(slots)
       /\ \A s \in slots :
            D[pos(s)] =
              << [key |-> "from", val |-> [k |-> "str", v |-> Group(deps(s[1]), line(s[1]), 1)]],
                 [key |-> "to", val |-> [k |-> "str", v |-> tokens(s[1])[s[2]]]],
                 [key |-> "type", val |-> [k |-> "lit", v |-> "package_dependency"]] >>
       /\ Len(call.parse_result.structures) =
            Cardinality({i \in 1..Len(lines) \ deplines :
                           version(i).ok \/ Search(makefile_eval, line(i)).ok})

\* C10: two dependency lines of two tokens each gave four edges, and a
\* version line its structure
C10_TwoLinesFourEdges ==
  /\ call.kind = "ha"
  /\ call.extractor = "_parse_makefile"
  /\ call.document.content # None
  /\ Len(SplitLines(call.document.content)) = 3
  /\ Len(call.parse_result.dependencies) = 4
  /\ Len(call.parse_result.structures) = 1

(***************************************************************************)
(* Properties of two calls on one instance                                 *)
(***************************************************************************)
\* C11: the emission of the second of two documents ingested on one
\* HomeAssistantParser instance is the emission the document gets on a new
\* instance, and a document ingested twice gets the same emission twice.
C11_NoStateAcrossFiles ==
  (call.kind = "session" /\ call.n = 2) =>
    /\ ~call.escaped
    /\ call.emitted = ingest(NoFrame, call.document).emitted
    /\ call.document = call.first.document => call.emitted = call.first.emitted

\* C11: a shell file that opens a function was ingested before a shell file
\* with an assignment alone, whose scope is "global"
C11_ContextNotCarried ==
  /\ call.kind = "session"
  /\ call.n = 2
  /\ Len(call.first.emitted) = 1
  /\ Len(call.emitted) = 1
  /\ "structures" \in DOMAIN call.first.emitted[1].metadata
  /\ "structures" \in DOMAIN call.emitted[1].metadata
  /\ Len(call.first.emitted[1].metadata.structures) = 1
  /\ Len(call.emitted[1].metadata.structures) = 1
  /\ call.first.emitted[1].metadata.structures[1].type = "function"
  /\ call.emitted[1].metadata.structures[1].type = "variable"
  /\ Get(call.emitted[1].metadata.structures[1].details, "scope").v =
       S("global")

(***************************************************************************)
(* Names of structures                                                     *)
(***************************************************************************)
\* C12: every structure of the result an extractor returned has a name that
\* is not empty, unless its type is "error".
C12_NamesNonEmpty ==
  (call.kind = "ha" /\ call.extractor # "None" /\ ~IsRaised(call.parse_result)) =>
    \A k \in 1..Len(call.parse_result.structures) :
      \/ call.parse_result.structures[k].type = "error"
      \/ call.parse_result.structures[k].name # << >>

(***************************************************************************)
(* Properties of the storage pipe                                          *)
(***************************************************************************)
\* C13: whichever store calls raise, the batches passed to store hold the
\* entries of the input in input order, each entry in one batch: batch s
\* holds the entries from (s-1)*storage_batch_size+1 on, every batch but the
\* last holds storage_batch_size entries and the last from 1 to
\* storage_batch_size; while a store call is awaited the batch it was
\* given is still held; and once the loop and the final batch are over
\* every entry of the input has been passed.
C13_EveryEntryInOneBatch ==
  LET size == pipe.storage_batch_size
      n == Len(pipe.stores)
      passed == IF n = 0 THEN 0 ELSE (n - 1) * size + Len(pipe.stores[n].batch)
  IN /\ \A s \in 1..n :
          /\ Len(pipe.stores[s].batch) \in 1..size
          /\ (s < n \/ pipe.pc \in {"loop", "store", "stored"}) =>
               Len(pipe.stores[s].batch) = size
          /\ \A j \in 1..Len(pipe.stores[s].batch) :
               /\ (s - 1) * size + j \in 1..Len(pipe.message)
               /\ pipe.stores[s].batch[j] =
                    [document_id |-> pipe.message[(s - 1) * size + j],
                     index |-> (s - 1) * size + j]
     /\ pipe.pc \in {"loop", "store", "final_store"} =>
          passed + Len(pipe.vector_batch) = pipe.i - 1
     /\ pipe.pc \in {"stored", "final_stored"} =>
          /\ passed = pipe.i - 1
          /\ pipe.stores[n].batch = pipe.vector_batch
     /\ pipe.pc \in {"final_stored", "yield", "done"} => passed = Len(pipe.message)

\* C13: a run is over in which a store call raised, a later store call was
\* made, and the last batch holds fewer than storage_batch_size entries
C13_LaterBatchAfterFailure ==
  /\ pipe.pc = "done"
  /\ Len(pipe.stores) >= 2
  /\ ~pipe.stores[1].ok
  /\ Len(pipe.stores[Len(pipe.stores)].batch) < pipe.storage_batch_size

\* C14: results are yielded only once the loop and the final batch are over;
\* the results are one per document id of the input, in the order in which
\* the ids first appear, each with success true and with the number of
\* entries of its id, whichever store calls raised; at the end there is one
\* for every id and the numbers add up to the number of entries.
C14_OneResultPerDocument ==
  LET first(d) == CHOOSE x \in 1..Len(pipe.message) :
                    /\ pipe.message[x] = d
                    /\ \A y \in 1..(x - 1) : pipe.message[y] # d
      ids == {pipe.message[x] : x \in 1..Len(pipe.message)}
      RECURSIVE Sum(_)
      Sum(k) == IF k = 0 THEN 0 ELSE pipe.results[k].num_chunks + Sum(k - 1)
  IN /\ Len(pipe.results) > 0 =>
          /\ pipe.pc \in {"yield", "done"}
          /\ pipe.i = Len(pipe.message) + 1
          /\ pipe.stores # << >>
          /\ (Len(pipe.stores) - 1) * pipe.storage_batch_size
               + Len(pipe.stores[Len(pipe.stores)].batch) = Len(pipe.message)
     /\ \A k \in 1..Len(pipe.results) :
          /\ pipe.results[k].success = TRUE
          /\ pipe.results[k].document_id \in ids
          /\ pipe.results[k].num_chunks =
               Cardinality({x \in 1..Len(pipe.message) :
                              pipe.message[x] = pipe.results[k].document_id})
          /\ \A l \in 1..(k - 1) :
               /\ pipe.results[l].document_id \in ids
               /\ pipe.results[l].document_id # pipe.results[k].document_id
               /\ first(pipe.results[l].document_id) < first(pipe.results[k].document_id)
     /\ pipe.pc = "done" =>
          /\ {pipe.results[k].document_id : k \in 1..Len(pipe.results)} = ids
          /\ Sum(Len(pipe.results)) = Len(pipe.message)

\* C14: a run is over in which every store call raised, of an input in
\* which a document id comes back after another id appeared
C14_AllStoresFailed ==
  /\ pipe.pc = "done"
  /\ Len(pipe.stores) >= 2
  /\ \A s \in 1..Len(pipe.stores) : ~pipe.stores[s].ok
  /\ Len(pipe.results) = 2
  /\ Len(pipe.message) >= 3
  /\ pipe.message[1] = pipe.message[3]
  /\ pipe.message[1] # pipe.message[2]

====

